---- MODULE Spec2Model ----
(***************************************************************************)
(* Versioned Parquet storage (parquet_storage/versioned_storage.py over    *)
(* parquet_storage/storage_engine.py): per-record metadata.json with an    *)
(* approval status and a history, and one Parquet data file per version.   *)
(*                                                                         *)
(* Spec      : callers run one at a time; every handler is one action      *)
(*             (the repository layer is single-call-synchronous).  A       *)
(*             handler may die between its data-file write and its         *)
(*             metadata write (outcome "crash").                           *)
(* SpecReads : Spec with the read operations between the calls.            *)
(* SpecDirect: Spec with callers that may pass expected_schema.            *)
(* SpecLambda: serial requests to the dispatcher over the repository       *)
(*             facade.                                                     *)
(* SpecParser: invocations of the parse worker over the raw uploads.       *)
(* SpecCsv:    CSV ingestions into one record, and its review.              *)
(* SpecLegacy: drafts and approvals of one borelog in the legacy layout.   *)
(* SpecConc  : two callers whose handlers interleave at their object-store *)
(*             operations (read metadata / exists check / put / write      *)
(*             metadata).                                                  *)
(* SpecXlsx  : the row reader of a worksheet applied to one sheet.         *)
(* SpecSpill : writes and reads that pass through a temporary file.        *)
(* SpecLegacyConc: two draft saves on one borelog in the legacy layout,    *)
(*             interleaved at their object-store operations.               *)
(* SpecTemplate: the data rows of a template sheet taken one at a time.    *)
(***************************************************************************)
EXTENDS Integers, Sequences, FiniteSets, TLC

\* ------------------------------------------------------------------ bounds
\* no call that would append to a history of MaxHistory entries is made
MaxHistory == 3
\* no call that would put a data file is made once MaxFiles of them exist
MaxFiles == 2

\* ------------------------------------------------------------------ inputs
None == "None"

RecordIds == {"r1"}
\* the (user id, comment) arguments of a call: one caller leaves the comment
\* out, the other gives one
Callers == {[user |-> "u1", comment |-> None], [user |-> "u2", comment |-> "note"]}
\* values of datetime.utcnow().isoformat() + "Z"
Timestamps == {"2024-01-27T10:00:00Z"}
\* the "{timestamp}_{uuid8}" suffix _generate_unique_path draws; two calls can
\* draw the same one (same second, same 32 random bits)
Suffixes == {"s1", "s2"}
Modes == {"s3", "local", "mock"}

\* table names a caller may pass; geological_log has no registered schema
Tables == {"borelog_versions", "geological_log"}
Schemas == {"SCHEMA_BORELOG_VERSIONS", "SCHEMA_UNIFIED_LAB_REPORTS"}
EmptyRows == "empty"
Rows == {"rows_a", "rows_b"}
\* a DataFrame: the schema its columns conform to, and its rows
DataFrames == [schema : Schemas, rows : Rows \cup {EmptyRows}]
\* expected_schema arguments: the repository's callers never pass one, so
\* the schema is looked up by table name
ExpectedSchemas == {None}
\* expected_schema arguments of a direct caller of VersionedParquetStorage,
\* who may pass a schema of its own
PassedSchemas == {None, "SCHEMA_UNIFIED_LAB_REPORTS"}

\* RecordStatus
DRAFT == "draft"
APPROVED == "approved"
REJECTED == "rejected"

VARIABLES
    mode,           \* ParquetStorageEngine.mode, fixed at construction
    metadata_json,  \* record_id -> parsed metadata.json, for the records that have one
    parquet_files,  \* object key -> bytes, for the data files that exist
    last,           \* the call that completed last: op, record_id, result
    pc,             \* SpecConc: where each caller's handler stands
    call,           \* SpecConc: the arguments and locals of each caller's handler
    s3_objects      \* object key -> body, for the objects outside records/

vars == <<mode, metadata_json, parquet_files, last, pc, call, s3_objects>>

\* ------------------------------------------------------------ object keys
\* "records/{record_id}/versions/v{version}.parquet"
_get_version_file_path(record_id, version) ==
    [record_id |-> record_id, stem |-> version, suffix |-> None]

\* mutant: the file keeps the name it was given
_generate_unique_path_fixed(path, suffix) == path

\* "{base}/{stem}_{timestamp}_{uuid8}.parquet"
_generate_unique_path(path, suffix) ==
    [path EXCEPT !.suffix = suffix]

\* ------------------------------------------------------------ schemas
get_schema(table_name) ==
    CASE table_name = "borelog_versions" -> "SCHEMA_BORELOG_VERSIONS"
      [] table_name = "unified_lab_reports" -> "SCHEMA_UNIFIED_LAB_REPORTS"
      [] OTHER -> None

\* TRUE when validation passes (no ValueError)
validate_schema(dataframe, expected_schema) ==
    dataframe.schema = expected_schema

\* pq.write_table: the bytes of the file hold the table
to_parquet(dataframe) ==
    [parquet |-> [schema |-> dataframe.schema, rows |-> dataframe.rows]]

\* ------------------------------------------------------- storage engine
\* the object store after write_file / put_object of data at key
put_object(files, key, data) ==
    [k \in DOMAIN files \cup {key} |-> IF k = key THEN data ELSE files[k]]

\* _mock_path_exists / head_object
path_exists(files, key) == key \in DOMAIN files

\* mutant: the write without the exists check
_write_to_mock_unguarded(files, mock_path, dataframe, overwrite) ==
    [error |-> None, files |-> put_object(files, mock_path, to_parquet(dataframe))]

\* non-partitioned write to the mock store: [error, files]
_write_to_mock(files, mock_path, dataframe, overwrite) ==
    IF ~overwrite /\ path_exists(files, mock_path)
    THEN [error |-> "FileExistsError", files |-> files]
    ELSE [error |-> None, files |-> put_object(files, mock_path, to_parquet(dataframe))]

\* non-partitioned write to S3: head_object, then put_object
_write_to_s3(files, s3_path, dataframe, overwrite) ==
    IF ~overwrite /\ path_exists(files, s3_path)
    THEN [error |-> "FileExistsError", files |-> files]
    ELSE [error |-> None, files |-> put_object(files, s3_path, to_parquet(dataframe))]

\* non-partitioned write in local mode: the guard calls self._local_path_exists,
\* which the class does not define
_write_to_local(files, file_path, dataframe, overwrite) ==
    IF ~overwrite
    THEN [error |-> "AttributeError", files |-> files]
    ELSE [error |-> None, files |-> put_object(files, file_path, to_parquet(dataframe))]

\* write_parquet without partition_cols: [error, files, full_path]
write_parquet(files, path, dataframe, expected_schema, overwrite, suffix) ==
    IF dataframe.rows = EmptyRows
    THEN [error |-> "ValueError", files |-> files, full_path |-> None]
    ELSE IF expected_schema # None /\ ~validate_schema(dataframe, expected_schema)
    THEN [error |-> "ValueError", files |-> files, full_path |-> None]
    ELSE LET full_path == _generate_unique_path(path, suffix)
             w == CASE mode = "s3" -> _write_to_s3(files, full_path, dataframe, overwrite)
                    [] mode = "local" -> _write_to_local(files, full_path, dataframe, overwrite)
                    [] OTHER -> _write_to_mock(files, full_path, dataframe, overwrite)
         IN  IF w.error # None
             THEN [error |-> "IOError", files |-> files, full_path |-> None]
             ELSE [error |-> None, files |-> w.files, full_path |-> full_path]

\* read_parquet: reads the key "{base_path}/{path}" itself: [error, dataframe]
read_parquet(files, path) ==
    IF path_exists(files, path)
    THEN [error |-> None, dataframe |-> files[path].parquet]
    ELSE [error |-> "IOError", dataframe |-> None]

\* ------------------------------------------------------------- metadata
NoMetadata == [absent |-> TRUE]

\* mutant: the document is never found
_read_metadata_not_found(record_id) == NoMetadata

\* mutant: a record without metadata reads as an empty document at version 0
_read_metadata_or_empty(record_id) ==
    IF record_id \in DOMAIN metadata_json THEN metadata_json[record_id]
    ELSE [record_id |-> record_id, table_name |-> "borelog_versions",
          current_version |-> 0, status |-> DRAFT, created_by |-> None,
          created_at |-> None, approved_by |-> None, approved_at |-> None,
          rejected_by |-> None, rejected_at |-> None, history |-> <<>>]

\* _read_metadata: the parsed document, or None when the file is not there
_read_metadata(record_id) ==
    IF record_id \in DOMAIN metadata_json THEN metadata_json[record_id] ELSE NoMetadata

\* _write_metadata: the metadata store after write_file, which always
\* overwrites.  The documents hold only str, int, None, list and dict values,
\* so what json.loads reads back is the document json.dumps was given.
_write_metadata(store, record_id, metadata) ==
    [r \in DOMAIN store \cup {record_id} |->
        IF r = record_id THEN metadata ELSE store[r]]

\* "comment or default"
comment_or(comment, default) ==
    IF comment = None \/ comment = "" THEN default ELSE comment

\* mutant: the new entry is put in front
_add_history_entry_prepend(metadata, version, status, user_id, comment, now) ==
    [metadata EXCEPT !.history =
        <<[version |-> version, status |-> status, created_by |-> user_id,
           created_at |-> now, comment |-> comment_or(comment, "")]>> \o @]

\* mutant: the history is set to the new entry alone
_add_history_entry_replace(metadata, version, status, user_id, comment, now) ==
    [metadata EXCEPT !.history =
        <<[version |-> version, status |-> status, created_by |-> user_id,
           created_at |-> now, comment |-> comment_or(comment, "")]>>]

_add_history_entry(metadata, version, status, user_id, comment, now) ==
    [metadata EXCEPT !.history = Append(@,
        [version |-> version, status |-> status, created_by |-> user_id,
         created_at |-> now, comment |-> comment_or(comment, "")])]

\* f"Updated to version {new_version}"
updated_to_version(new_version) ==
    CASE new_version = 2 -> "Updated to version 2"
      [] new_version = 3 -> "Updated to version 3"
      [] new_version = 4 -> "Updated to version 4"
      [] OTHER -> "Updated to version N"

\* ------------------------------------------------- versioned repository
\* the document create_record builds before its history entry
new_metadata(record_id, table_name, created_by, now) ==
    [record_id |-> record_id, table_name |-> table_name, current_version |-> 1,
     status |-> DRAFT, created_by |-> created_by, created_at |-> now,
     approved_by |-> None, approved_at |-> None,
     rejected_by |-> None, rejected_at |-> None, history |-> <<>>]

\* mutant: the status is reset but current_version is not advanced
update_metadata_no_bump(metadata, new_version) ==
    [metadata EXCEPT !.status = DRAFT]

\* mutant: current_version is advanced but the status is left as it was
update_metadata_keep_status(metadata, new_version) ==
    [metadata EXCEPT !.current_version = new_version]

\* update_record's change of the document it read
update_metadata(metadata, new_version) ==
    [metadata EXCEPT !.current_version = new_version, !.status = DRAFT]

\* mutant: the check for an approved record is missing
approve_error_no_approved_check(metadata) ==
    IF metadata = NoMetadata THEN "ValueError"
    ELSE IF metadata.status = REJECTED THEN "ValueError"
    ELSE None

\* approve_record's checks: the error raised, or None
approve_error(metadata) ==
    IF metadata = NoMetadata THEN "ValueError"
    ELSE IF metadata.status = APPROVED THEN "ValueError"
    ELSE IF metadata.status = REJECTED THEN "ValueError"
    ELSE None

\* mutant: the approver is not recorded
approve_metadata_no_stamp(metadata, approved_by, now) ==
    [metadata EXCEPT !.status = APPROVED]

approve_metadata(metadata, approved_by, now) ==
    [metadata EXCEPT !.status = APPROVED, !.approved_by = approved_by,
                     !.approved_at = now]

\* mutant: the check for an approved record is missing
reject_error_no_approved_check(metadata) ==
    IF metadata = NoMetadata THEN "ValueError"
    ELSE IF metadata.status = REJECTED THEN "ValueError"
    ELSE None

\* reject_record's checks: the error raised, or None
reject_error(metadata) ==
    IF metadata = NoMetadata THEN "ValueError"
    ELSE IF metadata.status = APPROVED THEN "ValueError"
    ELSE IF metadata.status = REJECTED THEN "ValueError"
    ELSE None

\* mutant: the rejection is stamped on the approval fields
reject_metadata_wrong_fields(metadata, rejected_by, now) ==
    [metadata EXCEPT !.status = REJECTED, !.approved_by = rejected_by,
                     !.approved_at = now]

reject_metadata(metadata, rejected_by, now) ==
    [metadata EXCEPT !.status = REJECTED, !.rejected_by = rejected_by,
                     !.rejected_at = now]

\* the schema a handler validates against: the argument, else the registry's
resolve_schema(expected_schema, table_name) ==
    IF expected_schema # None THEN expected_schema ELSE get_schema(table_name)

\* a call ends by raising: nothing stored changes
Raise(op, record_id, error) ==
    /\ last' = [op |-> op, record_id |-> record_id, result |-> error]
    /\ UNCHANGED <<mode, metadata_json, parquet_files, pc, call, s3_objects>>

\* a call ends, having written files and, unless it died first, metadata
Finish(op, record_id, files, metadata, crash) ==
    /\ parquet_files' = files
    /\ metadata_json' = IF crash THEN metadata_json
                        ELSE _write_metadata(metadata_json, record_id, metadata)
    /\ last' = [op |-> op, record_id |-> record_id,
                result |-> IF crash THEN "crash" ELSE "ok"]
    /\ UNCHANGED <<mode, pc, call, s3_objects>>

create_record(record_id, dataframe, table_name, created_by, comment, expected_schema) ==
    LET existing_metadata == _read_metadata(record_id)
        schema == resolve_schema(expected_schema, table_name)
    IN  IF existing_metadata # NoMetadata
        THEN Raise("create_record", record_id, "ValueError")
        ELSE IF schema = None \/ ~validate_schema(dataframe, schema)
        THEN Raise("create_record", record_id, "ValueError")
        ELSE /\ Cardinality(DOMAIN parquet_files) < MaxFiles
             /\ \E suffix \in Suffixes, now \in Timestamps, crash \in BOOLEAN :
                   LET w == write_parquet(parquet_files,
                                          _get_version_file_path(record_id, 1),
                                          dataframe, schema, FALSE, suffix)
                       metadata == _add_history_entry(
                                       new_metadata(record_id, table_name, created_by, now),
                                       1, DRAFT, created_by,
                                       comment_or(comment, "Initial creation"), now)
                   IN  IF w.error # None
                       THEN Raise("create_record", record_id, w.error)
                       ELSE Finish("create_record", record_id, w.files, metadata, crash)

update_record(record_id, dataframe, updated_by, comment, expected_schema) ==
    LET metadata == _read_metadata(record_id)
    IN  IF metadata = NoMetadata
        THEN Raise("update_record", record_id, "ValueError")
        ELSE LET schema == resolve_schema(expected_schema, metadata.table_name)
                 new_version == metadata.current_version + 1
             IN  IF schema = None \/ ~validate_schema(dataframe, schema)
                 THEN Raise("update_record", record_id, "ValueError")
                 ELSE /\ Len(metadata.history) < MaxHistory
                      /\ Cardinality(DOMAIN parquet_files) < MaxFiles
                      /\ \E suffix \in Suffixes, now \in Timestamps, crash \in BOOLEAN :
                            LET w == write_parquet(parquet_files,
                                        _get_version_file_path(record_id, new_version),
                                        dataframe, schema, FALSE, suffix)
                                updated == _add_history_entry(
                                        update_metadata(metadata, new_version),
                                        new_version, DRAFT, updated_by,
                                        comment_or(comment, updated_to_version(new_version)),
                                        now)
                            IN  IF w.error # None
                                THEN Raise("update_record", record_id, w.error)
                                ELSE Finish("update_record", record_id, w.files, updated, crash)

approve_record(record_id, approved_by, comment) ==
    LET metadata == _read_metadata(record_id)
    IN  IF approve_error(metadata) # None
        THEN Raise("approve_record", record_id, approve_error(metadata))
        ELSE /\ Len(metadata.history) < MaxHistory
             /\ \E now \in Timestamps :
                  Finish("approve_record", record_id, parquet_files,
                         _add_history_entry(approve_metadata(metadata, approved_by, now),
                                            metadata.current_version, APPROVED, approved_by,
                                            comment_or(comment, "Record approved"), now),
                         FALSE)

reject_record(record_id, rejected_by, comment) ==
    LET metadata == _read_metadata(record_id)
    IN  IF reject_error(metadata) # None
        THEN Raise("reject_record", record_id, reject_error(metadata))
        ELSE /\ Len(metadata.history) < MaxHistory
             /\ \E now \in Timestamps :
                  Finish("reject_record", record_id, parquet_files,
                         _add_history_entry(reject_metadata(metadata, rejected_by, now),
                                            metadata.current_version, REJECTED, rejected_by,
                                            comment_or(comment, "Record rejected"), now),
                         FALSE)

\* ------------------------------------------------------- specification
NoCall == [op |-> None, record_id |-> None, result |-> None]

\* the callers of SpecConc
Procs == {1, 2}

NoDataFrame == [schema |-> None, rows |-> None]
NoPath == [record_id |-> None, stem |-> 0, suffix |-> None]
Idle == [op |-> None, record_id |-> None, dataframe |-> NoDataFrame, user |-> None,
         comment |-> None, metadata |-> NoMetadata, full_path |-> NoPath]

\* ------------------------------------------------------------- reads
\* a read that returns None returns NoDataFrame here

\* get_specific_version: read_parquet of versions/v{version}.parquet, None
\* when it raises; the metadata is not consulted
get_specific_version(record_id, version) ==
    LET r == read_parquet(parquet_files, _get_version_file_path(record_id, version))
    IN  IF r.error # None THEN NoDataFrame ELSE r.dataframe

get_latest_version(record_id) ==
    LET metadata == _read_metadata(record_id)
    IN  IF metadata = NoMetadata THEN NoDataFrame
        ELSE get_specific_version(record_id, metadata.current_version)

\* the versions 1..current_version whose file read_parquet can read, ascending
get_all_versions(record_id) ==
    LET metadata == _read_metadata(record_id)
    IN  IF metadata = NoMetadata THEN <<>>
        ELSE SelectSeq([v \in 1..metadata.current_version |-> v],
                       LAMBDA v : read_parquet(parquet_files,
                                      _get_version_file_path(record_id, v)).error = None)

\* what the facade returns for "not found"
NoEntity == [data |-> None, current_version |-> 0, status |-> None]

\* ParquetRepository.get_latest: the data of the latest version with the
\* metadata's current_version and status
get_latest(record_id) ==
    LET metadata == _read_metadata(record_id)
        df == get_latest_version(record_id)
    IN  IF metadata = NoMetadata THEN NoEntity
        ELSE IF df = NoDataFrame THEN NoEntity
        ELSE [data |-> df.rows, current_version |-> metadata.current_version,
              status |-> metadata.status]

\* ParquetRepository.get_version: the data of one version; current_version
\* and status are None (0 and None here) when the metadata is absent
get_version(record_id, version) ==
    LET df == get_specific_version(record_id, version)
        metadata == _read_metadata(record_id)
    IN  IF df = NoDataFrame THEN NoEntity
        ELSE [data |-> df.rows,
              current_version |-> IF metadata = NoMetadata THEN 0
                                  ELSE metadata.current_version,
              status |-> IF metadata = NoMetadata THEN None ELSE metadata.status]

\* version numbers a reader may ask for
Versions == 1..MaxFiles

\* a read ends: nothing stored changes
Returned(op, record_id, found) ==
    /\ last' = [op |-> op, record_id |-> record_id,
                result |-> IF found THEN "found" ELSE None]
    /\ UNCHANGED <<mode, metadata_json, parquet_files, pc, call, s3_objects>>

Init ==
    /\ mode \in Modes
    /\ metadata_json = <<>>
    /\ parquet_files = <<>>
    /\ last = NoCall
    /\ pc = [p \in Procs |-> "idle"]
    /\ call = [p \in Procs |-> Idle]
    /\ s3_objects = <<>>

CreateRecord ==
    \E record_id \in RecordIds, dataframe \in DataFrames, table_name \in Tables,
       caller \in Callers, expected_schema \in ExpectedSchemas :
        create_record(record_id, dataframe, table_name, caller.user, caller.comment,
                      expected_schema)

UpdateRecord ==
    \E record_id \in RecordIds, dataframe \in DataFrames, caller \in Callers,
       expected_schema \in ExpectedSchemas :
        update_record(record_id, dataframe, caller.user, caller.comment, expected_schema)

ApproveRecord ==
    \E record_id \in RecordIds, caller \in Callers :
        approve_record(record_id, caller.user, caller.comment)

RejectRecord ==
    \E record_id \in RecordIds, caller \in Callers :
        reject_record(record_id, caller.user, caller.comment)

GetLatestVersion ==
    \E record_id \in RecordIds :
        Returned("get_latest_version", record_id,
                 get_latest_version(record_id) # NoDataFrame)

GetSpecificVersion ==
    \E record_id \in RecordIds, version \in Versions :
        Returned("get_specific_version", record_id,
                 get_specific_version(record_id, version) # NoDataFrame)

GetAllVersions ==
    \E record_id \in RecordIds :
        Returned("get_all_versions", record_id, get_all_versions(record_id) # <<>>)

GetLatest ==
    \E record_id \in RecordIds :
        Returned("get_latest", record_id, get_latest(record_id) # NoEntity)

GetVersion ==
    \E record_id \in RecordIds, version \in Versions :
        Returned("get_version", record_id, get_version(record_id, version) # NoEntity)

Next == CreateRecord \/ UpdateRecord \/ ApproveRecord \/ RejectRecord

Spec == Init /\ [][Next]_vars

\* the serial callers of Spec, and readers between their calls
NextReads ==
    \/ CreateRecord \/ UpdateRecord \/ ApproveRecord \/ RejectRecord
    \/ GetLatestVersion \/ GetSpecificVersion \/ GetAllVersions
    \/ GetLatest \/ GetVersion

SpecReads == Init /\ [][NextReads]_vars

\* serial callers of VersionedParquetStorage itself, who may pass expected_schema
CreateRecordDirect ==
    \E record_id \in RecordIds, dataframe \in DataFrames, table_name \in Tables,
       caller \in Callers, expected_schema \in PassedSchemas :
        create_record(record_id, dataframe, table_name, caller.user, caller.comment,
                      expected_schema)

UpdateRecordDirect ==
    \E record_id \in RecordIds, dataframe \in DataFrames, caller \in Callers,
       expected_schema \in PassedSchemas :
        update_record(record_id, dataframe, caller.user, caller.comment, expected_schema)

NextDirect == CreateRecordDirect \/ UpdateRecordDirect \/ ApproveRecord \/ RejectRecord

SpecDirect == Init /\ [][NextDirect]_vars

\* --------------------------------------------- repository facade
\* The storage handlers as functions of the stored state: what a call would
\* leave, [error, files, metadata], for the suffix and the time it draws.
create_record_result(record_id, dataframe, table_name, created_by, comment, expected_schema, suffix, now) ==
    LET schema == resolve_schema(expected_schema, table_name)
        w == write_parquet(parquet_files, _get_version_file_path(record_id, 1),
                           dataframe, schema, FALSE, suffix)
    IN  IF _read_metadata(record_id) # NoMetadata
        THEN [error |-> "ValueError", files |-> parquet_files, metadata |-> NoMetadata]
        ELSE IF schema = None \/ ~validate_schema(dataframe, schema)
        THEN [error |-> "ValueError", files |-> parquet_files, metadata |-> NoMetadata]
        ELSE IF w.error # None
        THEN [error |-> w.error, files |-> parquet_files, metadata |-> NoMetadata]
        ELSE [error |-> None, files |-> w.files,
              metadata |-> _add_history_entry(
                               new_metadata(record_id, table_name, created_by, now),
                               1, DRAFT, created_by,
                               comment_or(comment, "Initial creation"), now)]

update_record_result(record_id, dataframe, updated_by, comment, expected_schema, suffix, now) ==
    LET metadata == _read_metadata(record_id)
    IN  IF metadata = NoMetadata
        THEN [error |-> "ValueError", files |-> parquet_files, metadata |-> NoMetadata]
        ELSE LET schema == resolve_schema(expected_schema, metadata.table_name)
                 new_version == metadata.current_version + 1
                 w == write_parquet(parquet_files,
                                    _get_version_file_path(record_id, new_version),
                                    dataframe, schema, FALSE, suffix)
             IN  IF schema = None \/ ~validate_schema(dataframe, schema)
                 THEN [error |-> "ValueError", files |-> parquet_files,
                       metadata |-> metadata]
                 ELSE IF w.error # None
                 THEN [error |-> w.error, files |-> parquet_files, metadata |-> metadata]
                 ELSE [error |-> None, files |-> w.files,
                       metadata |-> _add_history_entry(
                                        update_metadata(metadata, new_version),
                                        new_version, DRAFT, updated_by,
                                        comment_or(comment, updated_to_version(new_version)),
                                        now)]

approve_record_result(record_id, approved_by, comment, now) ==
    LET metadata == _read_metadata(record_id)
    IN  IF approve_error(metadata) # None
        THEN [error |-> approve_error(metadata), files |-> parquet_files,
              metadata |-> metadata]
        ELSE [error |-> None, files |-> parquet_files,
              metadata |-> _add_history_entry(
                               approve_metadata(metadata, approved_by, now),
                               metadata.current_version, APPROVED, approved_by,
                               comment_or(comment, "Record approved"), now)]

reject_record_result(record_id, rejected_by, comment, now) ==
    LET metadata == _read_metadata(record_id)
    IN  IF reject_error(metadata) # None
        THEN [error |-> reject_error(metadata), files |-> parquet_files,
              metadata |-> metadata]
        ELSE [error |-> None, files |-> parquet_files,
              metadata |-> _add_history_entry(
                               reject_metadata(metadata, rejected_by, now),
                               metadata.current_version, REJECTED, rejected_by,
                               comment_or(comment, "Record rejected"), now)]

\* entity types a caller may name; "sample" is not in ENTITY_TABLE_MAP
EntityTypes == {"borelog", "geological_log", "sample"}
ProjectIds == {"p1"}
EntityIds == {"e1"}
\* payload dicts: one whose values fit the table's schema, one whose values do not
Payloads == {"payload_a", "payload_bad"}

\* "{project_id}/{entity_type}/{entity_id}"
_get_record_id(project_id, entity_type, entity_id) ==
    project_id \o "/" \o entity_type \o "/" \o entity_id

\* ENTITY_TABLE_MAP.get(entity_type)
_get_table_name(entity_type) ==
    CASE entity_type = "borelog" -> "borelog_versions"
      [] entity_type = "geological_log" -> "geological_log"
      [] entity_type = "lab_test" -> "unified_lab_reports"
      [] OTHER -> None

\* the one-row frame with the schema's columns in the schema's order; its
\* column types are the ones pandas infers from the payload's values
_payload_to_dataframe(payload, table_name) ==
    [schema |-> IF payload = "payload_bad" THEN "inferred" ELSE get_schema(table_name),
     rows |-> payload]

\* a facade call ends, having written metadata and (create, update) a data file
Stored(op, record_id, files, metadata, result) ==
    /\ parquet_files' = files
    /\ metadata_json' = _write_metadata(metadata_json, record_id, metadata)
    /\ last' = [op |-> op, record_id |-> record_id, result |-> result]
    /\ UNCHANGED <<mode, pc, call, s3_objects>>

\* _dataframe_to_dict(df) where df is what get_latest_version returns after
\* the write: df.empty on None raises AttributeError
data_of_latest(record_id) ==
    IF get_latest_version(record_id)' = NoDataFrame THEN "AttributeError" ELSE "ok"

\* ParquetRepository.create
create(entity_type, project_id, entity_id, payload, user, comment) ==
    LET table_name == _get_table_name(entity_type)
        record_id == _get_record_id(project_id, entity_type, entity_id)
    IN  IF table_name = None
        THEN Raise("create", record_id, "ValueError")
        ELSE IF _read_metadata(record_id) # NoMetadata
        THEN Raise("create", record_id, "ValueError")
        ELSE IF get_schema(table_name) = None
        THEN Raise("create", record_id, "ValueError")
        ELSE \E suffix \in Suffixes, now \in Timestamps :
               LET o == create_record_result(
                            record_id, _payload_to_dataframe(payload, table_name),
                            table_name, user, comment_or(comment, "Created entity"),
                            None, suffix, now)
               IN  IF o.error # None
                   THEN Raise("create", record_id, o.error)
                   ELSE /\ Cardinality(DOMAIN parquet_files) < MaxFiles
                        /\ Stored("create", record_id, o.files, o.metadata,
                                  data_of_latest(record_id))

\* ParquetRepository.update: the default comment is built from the local
\* variable metadata, which is assigned only by the call it is an argument of
update(entity_type, project_id, entity_id, payload, user, comment) ==
    LET table_name == _get_table_name(entity_type)
        record_id == _get_record_id(project_id, entity_type, entity_id)
    IN  IF table_name = None
        THEN Raise("update", record_id, "ValueError")
        ELSE IF _read_metadata(record_id) = NoMetadata
        THEN Raise("update", record_id, "ValueError")
        ELSE IF get_schema(table_name) = None
        THEN Raise("update", record_id, "ValueError")
        ELSE IF comment = None \/ comment = ""
        THEN Raise("update", record_id, "UnboundLocalError")
        ELSE \E suffix \in Suffixes, now \in Timestamps :
               LET o == update_record_result(
                            record_id, _payload_to_dataframe(payload, table_name),
                            user, comment, None, suffix, now)
               IN  IF o.error # None
                   THEN Raise("update", record_id, o.error)
                   ELSE /\ Len(o.metadata.history) <= MaxHistory
                        /\ Cardinality(DOMAIN parquet_files) < MaxFiles
                        /\ Stored("update", record_id, o.files, o.metadata,
                                  data_of_latest(record_id))

\* ParquetRepository.approve
approve(entity_type, project_id, entity_id, approver, comment) ==
    LET record_id == _get_record_id(project_id, entity_type, entity_id)
    IN  \E now \in Timestamps :
          LET o == approve_record_result(record_id, approver,
                                         comment_or(comment, "Approved entity"), now)
          IN  IF o.error # None
              THEN Raise("approve", record_id, o.error)
              ELSE /\ Len(o.metadata.history) <= MaxHistory
                   /\ Stored("approve", record_id, o.files, o.metadata, "ok")

\* ParquetRepository.reject
reject(entity_type, project_id, entity_id, rejector, comment) ==
    LET record_id == _get_record_id(project_id, entity_type, entity_id)
    IN  \E now \in Timestamps :
          LET o == reject_record_result(record_id, rejector,
                                        comment_or(comment, "Rejected entity"), now)
          IN  IF o.error # None
              THEN Raise("reject", record_id, o.error)
              ELSE /\ Len(o.metadata.history) <= MaxHistory
                   /\ Stored("reject", record_id, o.files, o.metadata, "ok")

\* the segments of a record id between its slashes
PathSegments(record_id) ==
    IF \E p \in ProjectIds, t \in EntityTypes, e \in EntityIds :
           record_id = _get_record_id(p, t, e)
    THEN CHOOSE seg \in ProjectIds \X EntityTypes \X EntityIds :
           record_id = _get_record_id(seg[1], seg[2], seg[3])
    ELSE <<record_id>>

\* record_id.startswith(f"{project_id}/{entity_type}/")
StartsWithPrefix(record_id, project_id, entity_type) ==
    LET seg == PathSegments(record_id)
    IN  Len(seg) >= 3 /\ seg[1] = project_id /\ seg[2] = entity_type

\* where write_file and read_file keep every key
MOCK_S3_ROOT == "./mock_s3"
\* values of the engine's base_path
BasePaths == {"./mock_s3", "parquet-data"}

\* the names of the directories right under Path(metadata_base_path)/"records":
\* metadata files are written under MOCK_S3_ROOT/records/{record_id}/, nothing
\* is written under another root
record_dirs(metadata_base_path) ==
    IF metadata_base_path = MOCK_S3_ROOT
    THEN {PathSegments(r)[1] : r \in DOMAIN metadata_json}
    ELSE {}

\* list_records: the directory names that have a metadata.json of their own
list_records(metadata_base_path, table_name, status) ==
    {d \in record_dirs(metadata_base_path) :
        /\ _read_metadata(d) # NoMetadata
        /\ table_name # None => _read_metadata(d).table_name = table_name
        /\ status # None => _read_metadata(d).status = status}

\* ParquetRepository.list_by_project: the record ids whose entity is returned
list_by_project(metadata_base_path, entity_type, project_id, status) ==
    {r \in list_records(metadata_base_path, None, None) :
        /\ StartsWithPrefix(r, project_id, entity_type)
        /\ status # None =>
              (_read_metadata(r) # NoMetadata /\ _read_metadata(r).status = status)
        /\ get_latest(r) # NoEntity}

\* ParquetRepository.get_history: found unless the metadata is absent
get_history_found(record_id) == _read_metadata(record_id) # NoMetadata

\* ------------------------------------------------------- dispatcher
\* a request as _parse_event leaves it; user stands for the user, the approver
\* or the rejector of the action; version 0 stands for no version
BaseRequest ==
    [action |-> None, entity_type |-> None, project_id |-> "p1", entity_id |-> "e1",
     payload |-> None, user |-> None, comment |-> None, version |-> 0,
     status |-> None, stratum_metadata_key |-> None]

ActionHandlers == {"create", "update", "get", "approve", "reject", "list",
                   "get_version", "get_history", "save_stratum"}

status_code_unknown_404(op, result) ==
    IF result \in {"MissingAction", "UnknownAction"} THEN 404 ELSE 400

\* the response's statusCode, from the handler and how its repository call ended
status_code(op, result) ==
    CASE result \in {"MissingAction", "UnknownAction", "MissingFields"} -> 400
      [] result = "ok" -> IF op = "create" THEN 201 ELSE 200
      [] result = "found" -> 200
      [] result = None ->
            IF op \in {"get_latest", "get_version", "get_history"} THEN 404 ELSE 200
      [] result = "ValueError" ->
            IF op \in {"create", "update", "approve", "reject", "get_version"}
            THEN 400 ELSE 500
      [] OTHER -> 500

\* not all([...]) of the fields a handler requires
missing(fields) == \E f \in fields : f = None \/ f = ""

_handle_create(request) ==
    IF missing({request.entity_type, request.project_id, request.entity_id, request.user})
    THEN Raise("create", None, "MissingFields")
    ELSE create(request.entity_type, request.project_id, request.entity_id,
                request.payload, request.user, request.comment)

_handle_update(request) ==
    IF missing({request.entity_type, request.project_id, request.entity_id, request.user})
    THEN Raise("update", None, "MissingFields")
    ELSE update(request.entity_type, request.project_id, request.entity_id,
                request.payload, request.user, request.comment)

_handle_get(request) ==
    IF missing({request.entity_type, request.project_id, request.entity_id})
    THEN Raise("get_latest", None, "MissingFields")
    ELSE LET record_id == _get_record_id(request.project_id, request.entity_type,
                                         request.entity_id)
         IN  Returned("get_latest", record_id, get_latest(record_id) # NoEntity)

_handle_approve(request) ==
    IF missing({request.entity_type, request.project_id, request.entity_id, request.user})
    THEN Raise("approve", None, "MissingFields")
    ELSE approve(request.entity_type, request.project_id, request.entity_id,
                 request.user, request.comment)

_handle_reject(request) ==
    IF missing({request.entity_type, request.project_id, request.entity_id, request.user})
    THEN Raise("reject", None, "MissingFields")
    ELSE reject(request.entity_type, request.project_id, request.entity_id,
                request.user, request.comment)

_handle_list(request) ==
    IF missing({request.entity_type, request.project_id})
    THEN Raise("list_by_project", None, "MissingFields")
    ELSE \E metadata_base_path \in BasePaths :
            Returned("list_by_project", None,
                     list_by_project(metadata_base_path, request.entity_type,
                                     request.project_id, request.status) # {})

_handle_get_version(request) ==
    IF missing({request.entity_type, request.project_id, request.entity_id})
       \/ request.version = 0
    THEN Raise("get_version", None, "MissingFields")
    ELSE LET record_id == _get_record_id(request.project_id, request.entity_type,
                                         request.entity_id)
         IN  Returned("get_version", record_id,
                      get_version(record_id, request.version) # NoEntity)

_handle_get_history(request) ==
    IF missing({request.entity_type, request.project_id, request.entity_id})
    THEN Raise("get_history", None, "MissingFields")
    ELSE LET record_id == _get_record_id(request.project_id, request.entity_type,
                                         request.entity_id)
         IN  Returned("get_history", record_id, get_history_found(record_id))

\* save_stratum: in S3 mode one put_object at the key the request names;
\* otherwise files under /tmp, outside every store
_handle_save_stratum(request) ==
    IF request.stratum_metadata_key = None
    THEN Raise("save_stratum", None, "MissingFields")
    ELSE /\ s3_objects' = IF mode = "s3"
                          THEN put_object(s3_objects, request.stratum_metadata_key,
                                          "stratum_metadata")
                          ELSE s3_objects
         /\ last' = [op |-> "save_stratum", record_id |-> None, result |-> "ok"]
         /\ UNCHANGED <<mode, metadata_json, parquet_files, pc, call>>

\* LambdaHandler.handle
handle(request) ==
    IF request.action = None \/ request.action = ""
    THEN Raise("handle", None, "MissingAction")
    ELSE IF request.action \notin ActionHandlers
    THEN Raise("handle", None, "UnknownAction")
    ELSE CASE request.action = "create" -> _handle_create(request)
           [] request.action = "update" -> _handle_update(request)
           [] request.action = "get" -> _handle_get(request)
           [] request.action = "approve" -> _handle_approve(request)
           [] request.action = "reject" -> _handle_reject(request)
           [] request.action = "list" -> _handle_list(request)
           [] request.action = "get_version" -> _handle_get_version(request)
           [] request.action = "get_history" -> _handle_get_history(request)
           [] OTHER -> _handle_save_stratum(request)

\* the requests of one action: the fields its handler reads, the others left out
RequestsOf(action) ==
    CASE action \in {"create", "update"} ->
            {[BaseRequest EXCEPT !.action = action, !.entity_type = t, !.payload = d,
                                 !.user = c.user, !.comment = c.comment] :
                t \in EntityTypes, d \in Payloads, c \in Callers}
            \cup {[BaseRequest EXCEPT !.action = action, !.entity_type = "borelog",
                                      !.payload = "payload_a"]}
      [] action \in {"approve", "reject"} ->
            {[BaseRequest EXCEPT !.action = action, !.entity_type = t,
                                 !.user = c.user, !.comment = c.comment] :
                t \in {"borelog", "geological_log"}, c \in Callers}
            \cup {[BaseRequest EXCEPT !.action = action, !.entity_type = "borelog"]}
      [] action = "list" ->
            {[BaseRequest EXCEPT !.action = action, !.entity_type = t, !.status = st] :
                t \in {"borelog", None}, st \in {None, DRAFT}}
      [] action = "get_version" ->
            {[BaseRequest EXCEPT !.action = action, !.entity_type = t, !.version = v] :
                t \in {"borelog", "geological_log"}, v \in Versions \cup {0}}
      [] action = "save_stratum" ->
            {[BaseRequest EXCEPT !.action = action, !.stratum_metadata_key = k] :
                k \in {None, "stratum/metadata.json"}}
      [] action \in {"get", "get_history"} ->
            {[BaseRequest EXCEPT !.action = action, !.entity_type = t] :
                t \in {"borelog", "geological_log", None}}
      [] OTHER -> {[BaseRequest EXCEPT !.action = action]}

Requests == UNION {RequestsOf(a) : a \in ActionHandlers \cup {None, "delete"}}

HandleCreate == \E request \in Requests : request.action = "create" /\ handle(request)
HandleUpdate == \E request \in Requests : request.action = "update" /\ handle(request)
HandleGet == \E request \in Requests : request.action = "get" /\ handle(request)
HandleApprove == \E request \in Requests : request.action = "approve" /\ handle(request)
HandleReject == \E request \in Requests : request.action = "reject" /\ handle(request)
HandleList == \E request \in Requests : request.action = "list" /\ handle(request)
HandleGetVersion == \E request \in Requests : request.action = "get_version" /\ handle(request)
HandleGetHistory == \E request \in Requests : request.action = "get_history" /\ handle(request)
HandleSaveStratum == \E request \in Requests : request.action = "save_stratum" /\ handle(request)
HandleOther == \E request \in Requests : request.action \notin ActionHandlers /\ handle(request)

NextLambda ==
    \/ HandleCreate \/ HandleUpdate \/ HandleGet \/ HandleApprove \/ HandleReject
    \/ HandleList \/ HandleGetVersion \/ HandleGetHistory \/ HandleSaveStratum
    \/ HandleOther

\* LambdaHandler.__init__ builds the engine in s3 mode or, for every other
\* STORAGE_MODE, in local mode
InitLambda == Init /\ mode \in {"s3", "local"}

SpecLambda == InitLambda /\ [][NextLambda]_vars

\* ------------------------------------------------------- parse worker
\* longest batch of queue records in one event
MaxBatch == 2

\* S3_BUCKET_NAME is not set
DEFAULT_BUCKET == ""

\* the raw uploads: a file with a borelog header, one without, and a workbook
\* without xl/worksheets/sheet1.xml
RawObjects == [k \in {"raw/ok.csv", "raw/bad.csv", "raw/nosheet.xlsx"} |->
                  CASE k = "raw/ok.csv" -> "csv_with_header"
                    [] k = "raw/bad.csv" -> "csv_without_header"
                    [] OTHER -> "xlsx_without_sheet1"]

\* version_no 0 stands for a payload without version_no
BasePayload ==
    [bucket |-> "bucket", csvKey |-> "raw/ok.csv", project_id |-> "p1",
     borelog_id |-> "b1", upload_id |-> "u1", version_no |-> 0]

\* the payloads of the upload handler, and payloads with a field missing
ParsePayloads ==
    {[BasePayload EXCEPT !.csvKey = k, !.version_no = v] :
        k \in {"raw/ok.csv", "raw/bad.csv", "raw/gone.csv"}, v \in {0, 1, 2}}
    \cup {[BasePayload EXCEPT !.bucket = None], [BasePayload EXCEPT !.csvKey = None],
          [BasePayload EXCEPT !.project_id = None],
          [BasePayload EXCEPT !.csvKey = "raw/nosheet.xlsx"]}

\* the event of a direct invocation that carries no payload field at all
EmptyPayload ==
    [bucket |-> None, csvKey |-> None, project_id |-> None, borelog_id |-> None,
     upload_id |-> None, version_no |-> 0]

\* queue records: a body that is the JSON text of a payload, a body that is
\* not JSON, an empty body
SqsRecords ==
    {[body |-> [json |-> payload]] :
        payload \in {BasePayload, [BasePayload EXCEPT !.csvKey = "raw/bad.csv"],
                     [BasePayload EXCEPT !.project_id = None]}}
    \cup {[body |-> [text |-> "{not json"]], [body |-> [text |-> ""]]}

\* which object-store call of one payload's processing fails, if any
Faults == {"none", "head_object", "put_strata", "put_index"}

\* a queue record with the fault its processing meets
Deliveries ==
    {d \in [record : SqsRecords, fault : Faults] :
        d.fault # "none" => d.record = [body |-> [json |-> BasePayload]]}

\* the decimal text of a version number
VersionText(version_no) == <<"1", "2", "3">>[version_no]

base_prefix(project_id, borelog_id, version_no) ==
    "projects/" \o project_id \o "/borelogs/" \o borelog_id \o "/parsed/v"
        \o VersionText(version_no)

strata_key(project_id, borelog_id, version_no) ==
    base_prefix(project_id, borelog_id, version_no) \o "/strata.json"

index_key(project_id, borelog_id, version_no) ==
    base_prefix(project_id, borelog_id, version_no) \o "/index.json"

_s3_object_exists_never(objects, key) == FALSE

\* _s3_object_exists: head_object answered, or answered 404
_s3_object_exists(objects, key) == key \in DOMAIN objects

\* parser.parse_borelog_document over the rows of the download: the strata, or
\* ValueError when no row looks like a structured or a template header or when
\* the row reader finds no sheet1.xml
parse_borelog_document(rows) ==
    IF rows = "csv_with_header" THEN [error |-> None, strata |-> "strata_of_csv"]
    ELSE [error |-> "ValueError", strata |-> None]

\* how processing one payload ends: the exception, the status returned, the
\* calls it made in order, and the objects it leaves
Outcome(payload, error, status, calls, objects) ==
    [payload |-> payload, error |-> error, status |-> status, calls |-> calls,
     objects |-> objects]

_process_payload_write_first(payload, objects, fault) ==
    LET bucket == IF payload.bucket # None THEN payload.bucket ELSE DEFAULT_BUCKET
        version_no == IF payload.version_no = 0 THEN 1 ELSE payload.version_no
    IN  IF bucket = "" THEN Outcome(payload, "ValueError", None, <<>>, objects)
        ELSE IF payload.csvKey = None THEN Outcome(payload, "ValueError", None, <<>>, objects)
        ELSE IF missing({payload.project_id, payload.borelog_id, payload.upload_id})
        THEN Outcome(payload, "ValueError", None, <<>>, objects)
        ELSE
        LET skey == strata_key(payload.project_id, payload.borelog_id, version_no)
            ikey == index_key(payload.project_id, payload.borelog_id, version_no)
        IN  IF fault = "head_object"
            THEN Outcome(payload, "ClientError", None, <<"head_object">>, objects)
            ELSE IF _s3_object_exists(objects, skey)
            THEN Outcome(payload, None, "SKIPPED", <<"head_object">>, objects)
            ELSE IF payload.csvKey \notin DOMAIN objects
            THEN Outcome(payload, "ClientError", None, <<"head_object", "get_object">>,
                         put_object(objects, skey, None))
            ELSE
            LET parsed == parse_borelog_document(objects[payload.csvKey])
                with_strata == put_object(objects, skey, parsed.strata)
                with_index == put_object(with_strata, ikey, "depth_index")
            IN  IF parsed.error # None
                THEN Outcome(payload, parsed.error, None,
                             <<"head_object", "get_object", "parse">>,
                             put_object(objects, skey, None))
                ELSE IF fault = "put_strata"
                THEN Outcome(payload, "ClientError", None,
                             <<"head_object", "get_object", "parse", "put_object">>,
                             objects)
                ELSE IF fault = "put_index"
                THEN Outcome(payload, "ClientError", None,
                             <<"head_object", "get_object", "parse", "put_object",
                               "put_object">>, with_strata)
                ELSE Outcome(payload, None, "PARSED",
                             <<"head_object", "get_object", "parse", "put_object",
                               "put_object">>, with_index)

\* _process_payload over the objects it finds, with the fault it meets
_process_payload(payload, objects, fault) ==
    LET bucket == IF payload.bucket # None THEN payload.bucket ELSE DEFAULT_BUCKET
        version_no == IF payload.version_no = 0 THEN 1 ELSE payload.version_no
    IN  IF bucket = "" THEN Outcome(payload, "ValueError", None, <<>>, objects)
        ELSE IF payload.csvKey = None THEN Outcome(payload, "ValueError", None, <<>>, objects)
        ELSE IF missing({payload.project_id, payload.borelog_id, payload.upload_id})
        THEN Outcome(payload, "ValueError", None, <<>>, objects)
        ELSE
        LET skey == strata_key(payload.project_id, payload.borelog_id, version_no)
            ikey == index_key(payload.project_id, payload.borelog_id, version_no)
        IN  IF fault = "head_object"
            THEN Outcome(payload, "ClientError", None, <<"head_object">>, objects)
            ELSE IF _s3_object_exists(objects, skey)
            THEN Outcome(payload, None, "SKIPPED", <<"head_object">>, objects)
            ELSE IF payload.csvKey \notin DOMAIN objects
            THEN Outcome(payload, "ClientError", None, <<"head_object", "get_object">>, objects)
            ELSE
            LET parsed == parse_borelog_document(objects[payload.csvKey])
                with_strata == put_object(objects, skey, parsed.strata)
                with_index == put_object(with_strata, ikey, "depth_index")
            IN  IF parsed.error # None
                THEN Outcome(payload, parsed.error, None,
                             <<"head_object", "get_object", "parse">>, objects)
                ELSE IF fault = "put_strata"
                THEN Outcome(payload, "ClientError", None,
                             <<"head_object", "get_object", "parse", "put_object">>,
                             objects)
                ELSE IF fault = "put_index"
                THEN Outcome(payload, "ClientError", None,
                             <<"head_object", "get_object", "parse", "put_object",
                               "put_object">>, with_strata)
                ELSE Outcome(payload, None, "PARSED",
                             <<"head_object", "get_object", "parse", "put_object",
                               "put_object">>, with_index)

\* _process_sqs_record: the body decoded, then _process_payload
_process_sqs_record(record, objects, fault) ==
    IF record.body = [text |-> ""]
    THEN Outcome(EmptyPayload, "ValueError", None, <<>>, objects)
    ELSE IF "json" \notin DOMAIN record.body
    THEN Outcome(EmptyPayload, "JSONDecodeError", None, <<>>, objects)
    ELSE _process_payload(record.body.json, objects, fault)

RECURSIVE process_records_all(_, _, _, _)
process_records_all(records, faults, objects, done) ==
    IF records = <<>> THEN done
    ELSE LET o == _process_sqs_record(Head(records), objects, Head(faults))
         IN  process_records_all(Tail(records), Tail(faults), o.objects,
                                 Append(done, o))

RECURSIVE process_records(_, _, _, _)
\* the loop over event["Records"]: the outcomes of the records processed, in
\* order, up to and including the first that raised
process_records(records, faults, objects, done) ==
    IF records = <<>> THEN done
    ELSE LET o == _process_sqs_record(Head(records), objects, Head(faults))
         IN  IF o.error # None THEN Append(done, o)
             ELSE process_records(Tail(records), Tail(faults), o.objects,
                                  Append(done, o))

\* what the invocation left behind: the number of queue records of its event,
\* its return value (status, processed) or its exception (with processed 0),
\* and the outcome of each payload it processed
Invoked(records, result, processed, trace, objects) ==
    /\ last' = [op |-> "handler", record_id |-> None, records |-> records,
                result |-> result, processed |-> processed, trace |-> trace]
    /\ s3_objects' = objects
    /\ UNCHANGED <<mode, metadata_json, parquet_files, pc, call>>

\* handler on an event with Records
handler_records(records, faults) ==
    LET trace == process_records(records, faults, s3_objects, <<>>)
        end == trace[Len(trace)]
    IN  IF end.error # None
        THEN Invoked(Len(records), end.error, 0, trace, end.objects)
        ELSE Invoked(Len(records), "OK", Len(trace), trace, end.objects)

\* handler on an event that is the payload itself (an empty Records list is
\* such an event)
handler_payload(payload, fault) ==
    LET o == _process_payload(payload, s3_objects, fault)
    IN  IF o.error # None
        THEN Invoked(0, o.error, 0, <<o>>, o.objects)
        ELSE Invoked(0, o.status, 1, <<o>>, o.objects)

HandlerBatch ==
    \E n \in 1..MaxBatch :
        \E deliveries \in [1..n -> Deliveries] :
            handler_records([i \in 1..n |-> deliveries[i].record],
                            [i \in 1..n |-> deliveries[i].fault])

HandlerDirect ==
    \E payload \in ParsePayloads \cup {EmptyPayload}, fault \in Faults :
        handler_payload(payload, fault)

InitParser ==
    /\ mode = "s3"
    /\ metadata_json = <<>>
    /\ parquet_files = <<>>
    /\ last = NoCall
    /\ pc = [p \in Procs |-> "idle"]
    /\ call = [p \in Procs |-> Idle]
    /\ s3_objects = RawObjects

NextParser == HandlerBatch \/ HandlerDirect

SpecParser == InitParser /\ [][NextParser]_vars

\* ------------------------------------------------------- CSV ingestion
\* most data rows of one CSV
MaxRows == 2

\* The table's schema, as far as rows are validated against it, is a required
\* string field "id" and a nullable float field "value". A cell is "nan"
\* when empty; "word" is text that float() rejects.
CsvCells == {<<"text", "number">>, <<"text", "word">>, <<"nan", "number">>}
\* the rows of a CSV that has no "value" column
CsvCellsNoValue == {<<"text", "nan">>}

\* the CSV texts: the ones pd.read_csv parses, by their data rows, and one it
\* does not parse
CsvContents ==
    {[parsable |-> TRUE, cells |-> c] :
        c \in UNION {[1..n -> CsvCells] : n \in 0..MaxRows}}
    \cup {[parsable |-> TRUE, cells |-> c] :
             c \in UNION {[1..n -> CsvCellsNoValue] : n \in 1..MaxRows}}
    \cup {[parsable |-> FALSE, cells |-> <<>>]}

\* the uploading user and the comment of the upload
Uploaders == {[user |-> "u1", comment |-> "bulk upload"]}
\* the reviewing user
Reviewers == {[user |-> "u2", comment |-> None]}
\* the suffix drawn for an ingested file
IngestSuffixes == {"s1"}

\* the decimal text of a small number
NumberText(n) == <<"0", "1", "2", "3", "4">>[n + 1]

\* pd.read_csv: the rows with their index, 0-based
read_csv(csv) ==
    [i \in 1..Len(csv.cells) |->
        [index |-> i - 1, id |-> csv.cells[i][1], value |-> csv.cells[i][2]]]

row_errors_required_only(row) ==
    IF row.id = "nan"
    THEN <<[row_index |-> row.index, field |-> "id", error |-> "required"]>>
    ELSE <<>>

\* the ValidationErrors of one row, field by field: a required field that is
\* null, else a value of the wrong type
row_errors(row) ==
    (IF row.id = "nan"
     THEN <<[row_index |-> row.index, field |-> "id", error |-> "required"]>>
     ELSE <<>>)
    \o (IF row.value = "word"
        THEN <<[row_index |-> row.index, field |-> "value", error |-> "type"]>>
        ELSE <<>>)

\* _transform_row_for_parquet: the schema's fields only, NaN to None, the
\* float field through float()
_transform_row_for_parquet(row) ==
    [id |-> row.id,
     value |-> IF row.value = "nan" THEN "None"
               ELSE IF row.value = "number" THEN "float" ELSE "None"]

RECURSIVE separate(_, _, _, _, _)
\* the loop of _validate_and_separate_rows over df.iterrows()
separate(rows, skip_errors, valid_rows, invalid_rows, errors) ==
    IF rows = <<>>
    THEN [valid_rows |-> valid_rows, invalid_rows |-> invalid_rows, errors |-> errors]
    ELSE LET row == Head(rows)
         IN  IF row_errors(row) # <<>>
             THEN IF skip_errors
                  THEN separate(Tail(rows), skip_errors, valid_rows,
                                Append(invalid_rows, row), errors \o row_errors(row))
                  ELSE [valid_rows |-> valid_rows,
                        invalid_rows |-> Append(invalid_rows, row),
                        errors |-> errors \o row_errors(row)]
             ELSE separate(Tail(rows), skip_errors,
                           Append(valid_rows, _transform_row_for_parquet(row)),
                           invalid_rows, errors)

_validate_and_separate_rows(rows, skip_errors) ==
    separate(rows, skip_errors, <<>>, <<>>, <<>>)

RECURSIVE RowsText(_)
\* the rows of a frame, as the text of their values
RowsText(rows) ==
    IF rows = <<>> THEN ""
    ELSE Head(rows).id \o ":" \o Head(rows).value \o ";" \o RowsText(Tail(rows))

\* pd.DataFrame(valid_rows): the columns are the schema's, in its order; a
\* column holding None in every row gets no type of its own, so the frame
\* conforms to the schema only when some row has a value in the float column
valid_dataframe(valid_rows, schema) ==
    [schema |-> IF \E i \in 1..Len(valid_rows) : valid_rows[i].value = "float"
                THEN schema ELSE "inferred",
     rows |-> IF valid_rows = <<>> THEN EmptyRows ELSE RowsText(valid_rows)]

no_valid_rows_never(valid_rows) == FALSE

\* len(valid_rows) == 0
no_valid_rows(valid_rows) == Len(valid_rows) = 0

\* f"Bulk CSV upload: {len(valid_rows)} rows, {len(invalid_rows)} errors"
bulk_comment(valid_rows, invalid_rows) ==
    "Bulk CSV upload: " \o NumberText(Len(valid_rows)) \o " rows, "
        \o NumberText(Len(invalid_rows)) \o " errors"

\* the call's arguments and the CSVIngestionResult it returned (version 0 for
\* no version), or the exception it raised
Ingested(record_id, csv, skip_errors, result, total_rows, valid_rows, invalid_rows, errors, version) ==
    last' = [op |-> "ingest_csv", record_id |-> record_id, csv |-> csv,
             skip_errors |-> skip_errors, result |-> result,
             total_rows |-> total_rows, valid_rows |-> valid_rows,
             invalid_rows |-> invalid_rows, errors |-> errors, version |-> version]

\* ingest_csv, with the file's content for its path; ingest_csv_from_string
\* takes the same steps on the content it is given
ingest_csv(csv, table_name, project_id, entity_type, entity_id, user_id, comment, skip_errors) ==
    LET record_id == project_id \o "/" \o entity_type \o "/" \o entity_id
        schema == get_schema(table_name)
        df == read_csv(csv)
        total_rows == Len(df)
        sep == _validate_and_separate_rows(df, skip_errors)
        valid_df == valid_dataframe(sep.valid_rows, schema)
        why == comment_or(comment, bulk_comment(sep.valid_rows, sep.invalid_rows))
        raised(error) ==
            /\ Ingested(record_id, csv, skip_errors, error, 0, 0, 0, <<>>, 0)
            /\ UNCHANGED <<mode, metadata_json, parquet_files, pc, call, s3_objects>>
    IN  IF schema = None \/ ~csv.parsable
        THEN raised("ValueError")
        ELSE IF total_rows = 0
        THEN /\ Ingested(record_id, csv, skip_errors, "ok", 0, 0, 0, <<>>, 0)
             /\ UNCHANGED <<mode, metadata_json, parquet_files, pc, call, s3_objects>>
        ELSE IF no_valid_rows(sep.valid_rows)
        THEN /\ Ingested(record_id, csv, skip_errors, "ok", total_rows, 0,
                         Len(sep.invalid_rows), sep.errors, 0)
             /\ UNCHANGED <<mode, metadata_json, parquet_files, pc, call, s3_objects>>
        ELSE \E suffix \in IngestSuffixes, now \in Timestamps :
               LET o == IF _read_metadata(record_id) # NoMetadata
                        THEN update_record_result(record_id, valid_df, user_id, why,
                                                  None, suffix, now)
                        ELSE create_record_result(record_id, valid_df, table_name,
                                                  user_id, why, None, suffix, now)
               IN  IF o.error # None
                   THEN raised(o.error)
                   ELSE /\ Len(o.metadata.history) <= MaxHistory
                        /\ Cardinality(DOMAIN parquet_files) < MaxFiles
                        /\ parquet_files' = o.files
                        /\ metadata_json' =
                               _write_metadata(metadata_json, record_id, o.metadata)
                        /\ Ingested(record_id, csv, skip_errors, "ok", total_rows,
                                    Len(sep.valid_rows), Len(sep.invalid_rows),
                                    sep.errors, o.metadata.current_version)
                        /\ UNCHANGED <<mode, pc, call, s3_objects>>

\* the calls: every CSV into the table of the record, one into a table
\* without a registered schema
IngestCalls ==
    [csv : CsvContents, table_name : {"borelog_versions"}, skip_errors : BOOLEAN]
    \cup {[csv |-> [parsable |-> TRUE, cells |-> << <<"text", "number">> >>],
           table_name |-> "geological_log", skip_errors |-> TRUE]}

IngestCsv ==
    \E i \in IngestCalls, c \in Uploaders :
        ingest_csv(i.csv, i.table_name, "p1", "borelog", "e1", c.user, c.comment,
                   i.skip_errors)

\* the record's reviewer, through the repository facade
ApproveIngested == \E c \in Reviewers : approve("borelog", "p1", "e1", c.user, c.comment)

NextCsv == IngestCsv \/ ApproveIngested

\* the engine over the filesystem: in local mode, as the ingestion examples
\* build it, or in mock mode
InitCsv == Init /\ mode \in {"local", "mock"}

SpecCsv == InitCsv /\ [][NextCsv]_vars

\* ------------------------------------------------------- legacy layout
\* One borelog in the layout projects/project_{p}/borelogs/borelog_{b}/ with
\* metadata.json and v{n}/data.parquet; its objects are in s3_objects.
LegacyUsers == {"u1", "u2"}
\* how the put_object of a call ends
PutOutcomes == {"ok", "ClientError"}

legacy_metadata_key(project_id, borelog_id) ==
    "projects/project_" \o project_id \o "/borelogs/borelog_" \o borelog_id
        \o "/metadata.json"

legacy_parquet_key(project_id, borelog_id, version) ==
    "projects/project_" \o project_id \o "/borelogs/borelog_" \o borelog_id
        \o "/v" \o NumberText(version) \o "/data.parquet"

\* the document save_draft starts from when there is no metadata.json;
\* latest_approved 0 stands for a document without that key
EmptyLegacyMetadata(project_id, borelog_id) ==
    [project_id |-> project_id, borelog_id |-> borelog_id, latest_version |-> 0,
     latest_approved |-> 0, versions |-> <<>>, approved_by |-> None,
     approved_at |-> None]

\* the index of the first entry of versions[] with that version, 0 if none
version_entry(metadata, version) ==
    IF \E i \in 1..Len(metadata.versions) : metadata.versions[i].version = version
    THEN CHOOSE i \in 1..Len(metadata.versions) :
            /\ metadata.versions[i].version = version
            /\ \A j \in 1..(i - 1) : metadata.versions[j].version # version
    ELSE 0

approved_root_only(metadata, version, approved_by, now) ==
    [metadata EXCEPT !.latest_approved = version, !.approved_by = approved_by,
                     !.approved_at = now]

\* steps 3 to 5 of approve_version on the document it read
approved(metadata, version, approved_by, now) ==
    [metadata EXCEPT
        !.versions[version_entry(metadata, version)] =
            [@ EXCEPT !.status = "APPROVED", !.approved_by = approved_by,
                      !.approved_at = now],
        !.latest_approved = version,
        !.approved_by = approved_by,
        !.approved_at = now]

LegacyDone(op, result, objects) ==
    /\ last' = [op |-> op, record_id |-> None, result |-> result]
    /\ s3_objects' = objects
    /\ UNCHANGED <<mode, metadata_json, parquet_files, pc, call>>

\* BorelogWriter.save_draft
save_draft(project_id, borelog_id, records, created_by, now, upload, write) ==
    LET mkey == legacy_metadata_key(project_id, borelog_id)
        metadata == IF mkey \in DOMAIN s3_objects THEN s3_objects[mkey]
                    ELSE EmptyLegacyMetadata(project_id, borelog_id)
        next_version == metadata.latest_version + 1
        pkey == legacy_parquet_key(project_id, borelog_id, next_version)
        uploaded == put_object(s3_objects, pkey, records)
        entry == [version |-> next_version, status |-> "DRAFT",
                  created_by |-> created_by, created_at |-> now,
                  approved_by |-> None, approved_at |-> None]
        updated == [metadata EXCEPT !.latest_version = next_version,
                                    !.versions = Append(@, entry)]
    IN  /\ next_version <= MaxFiles
        /\ IF pkey \in DOMAIN s3_objects
           THEN LegacyDone("save_draft", "ValueError", s3_objects)
           ELSE IF upload # "ok"
           THEN LegacyDone("save_draft", upload, s3_objects)
           ELSE IF write # "ok"
           THEN LegacyDone("save_draft", write, uploaded)
           ELSE LegacyDone("save_draft", "ok", put_object(uploaded, mkey, updated))

\* BorelogApproval.approve_version
approve_version(project_id, borelog_id, version, approved_by, now, write) ==
    LET mkey == legacy_metadata_key(project_id, borelog_id)
        pkey == legacy_parquet_key(project_id, borelog_id, version)
    IN  IF mkey \notin DOMAIN s3_objects
        THEN LegacyDone("approve_version", "ValueError", s3_objects)
        ELSE IF pkey \notin DOMAIN s3_objects
        THEN LegacyDone("approve_version", "ValueError", s3_objects)
        ELSE IF version_entry(s3_objects[mkey], version) = 0
        THEN LegacyDone("approve_version", "ValueError", s3_objects)
        ELSE IF write # "ok"
        THEN LegacyDone("approve_version", write, s3_objects)
        ELSE LegacyDone("approve_version", "ok",
                        put_object(s3_objects, mkey,
                                   approved(s3_objects[mkey], version, approved_by, now)))

SaveDraft ==
    \E created_by \in LegacyUsers, now \in Timestamps, upload \in PutOutcomes,
       write \in PutOutcomes :
        save_draft("p1", "b1", "records", created_by, now, upload, write)

ApproveVersion ==
    \E version \in 1..(MaxFiles + 1), approved_by \in LegacyUsers, now \in Timestamps,
       write \in PutOutcomes :
        approve_version("p1", "b1", version, approved_by, now, write)

InitLegacy ==
    /\ mode = "s3"
    /\ metadata_json = <<>>
    /\ parquet_files = <<>>
    /\ last = NoCall
    /\ pc = [p \in Procs |-> "idle"]
    /\ call = [p \in Procs |-> Idle]
    /\ s3_objects = <<>>

NextLegacy == SaveDraft \/ ApproveVersion

SpecLegacy == InitLegacy /\ [][NextLegacy]_vars

\* ------------------------------------------------------- XLSX row reader
\* most cells of one worksheet row
MaxCells == 3

\* the column letters of a cell's r attribute (the regex [A-Z]+ drops the row
\* digits); <<>> is a cell without the attribute
ColumnLetters == {<<"A">>, <<"B">>, <<"C">>, <<"D">>, <<"A", "A">>}
\* the text of a cell's v element; None is a cell without one
CellTexts == {"a", " b ", None}
Cells == [r : ColumnLetters \cup {<<>>}, v : CellTexts]

\* ord(char) - ord("A") + 1
LetterNumber(char) ==
    CASE char = "A" -> 1 [] char = "B" -> 2 [] char = "C" -> 3 [] char = "D" -> 4

RECURSIVE letters_value(_, _)
letters_value(letters, result) ==
    IF letters = <<>> THEN result
    ELSE letters_value(Tail(letters), result * 26 + LetterNumber(Head(letters)))

_column_ref_to_index(ref) ==
    IF ref = <<>> THEN 0
    ELSE IF letters_value(ref, 0) - 1 > 0 THEN letters_value(ref, 0) - 1 ELSE 0

\* str.strip on the texts above
strip(text) == IF text = " b " THEN "b" ELSE text

\* _read_cell_value of a cell that is neither a shared nor an inline string
_read_cell_value(cell) == IF cell.v = None THEN "" ELSE cell.v

RECURSIVE row_values_unpadded(_, _, _)
row_values_unpadded(cells, row_values, expected_col) ==
    IF cells = <<>> THEN row_values
    ELSE row_values_unpadded(Tail(cells),
                             Append(row_values, strip(_read_cell_value(Head(cells)))),
                             expected_col + 1)

RECURSIVE row_values_of(_, _, _)
\* the loop over the c elements of one row
row_values_of(cells, row_values, expected_col) ==
    IF cells = <<>> THEN row_values
    ELSE LET col_idx == _column_ref_to_index(Head(cells).r)
             gap == IF expected_col < col_idx THEN col_idx - expected_col ELSE 0
             padded == row_values \o [i \in 1..gap |-> ""]
         IN  row_values_of(Tail(cells),
                           Append(padded, strip(_read_cell_value(Head(cells)))),
                           expected_col + gap + 1)

\* iter_xlsx_rows over the row elements of sheet1.xml
iter_xlsx_rows(sheet) == [i \in 1..Len(sheet) |-> row_values_of(sheet[i], <<>>, 0)]

RECURSIVE CellColumn(_, _)
\* the column a cell of a worksheet row stands in: the one its reference
\* names, or the one after the cell before it when it has no reference
CellColumn(cells, j) ==
    IF cells[j].r # <<>> THEN _column_ref_to_index(cells[j].r)
    ELSE IF j = 1 THEN 0 ELSE CellColumn(cells, j - 1) + 1

\* the rows a worksheet can hold: cells in column order
XlsxRows ==
    {cells \in UNION {[1..n -> Cells] : n \in 0..MaxCells} :
        \A j \in 2..Len(cells) : CellColumn(cells, j) > CellColumn(cells, j - 1)}

\* the worksheets read: one row, or a sparse row followed by another row
Sheets ==
    {<<cells>> : cells \in XlsxRows}
    \cup {<< <<[r |-> <<"A">>, v |-> "a"], [r |-> <<"D">>, v |-> "a"]>>, cells >> :
             cells \in {c \in XlsxRows : Len(c) <= 1}}

\* the reader is handed the worksheet of the upload
InitXlsx ==
    /\ mode = "s3"
    /\ metadata_json = <<>>
    /\ parquet_files = <<>>
    /\ last \in {[op |-> "upload", record_id |-> None, sheet |-> sheet, result |-> <<>>] :
                    sheet \in Sheets}
    /\ pc = [p \in Procs |-> "idle"]
    /\ call = [p \in Procs |-> Idle]
    /\ s3_objects = RawObjects

IterXlsxRows ==
    /\ last' = [last EXCEPT !.op = "iter_xlsx_rows", !.result = iter_xlsx_rows(last.sheet)]
    /\ UNCHANGED <<mode, metadata_json, parquet_files, pc, call, s3_objects>>

NextXlsx == IterXlsxRows

SpecXlsx == InitXlsx /\ [][NextXlsx]_vars

\* ------------------------------------------------------- temporary files
\* The calls that build or read a Parquet file through a file under /tmp.
\* Each returns [error, files, temp_files, spilled]: the exception, the store
\* it leaves, the temporary files left under /tmp when it returns, and
\* whether it created one.

\* the step of a call that fails, if any
SpillFaults == {"none", "encode", "upload", "download", "read", "metadata"}

\* the clean-up of a finally or except clause: the file is removed if it exists
remove_temp_skipped(temp_files, temp_file) == temp_files

remove_temp(temp_files, temp_file) == temp_files \ {temp_file}

\* _write_to_mock, non-partitioned; a failed pq.write_table may or may not
\* leave a partial file behind
_write_to_mock_spill(files, mock_path, dataframe, overwrite, fault, partial) ==
    LET temp_file == "/tmp/parquet_temp_{uuid4}.parquet"
        w == _write_to_mock(files, mock_path, dataframe, overwrite)
    IN  IF w.error # None
        THEN [error |-> w.error, files |-> files, temp_files |-> {}, spilled |-> FALSE]
        ELSE IF fault = "encode"
        THEN [error |-> "ArrowError", files |-> files,
              temp_files |-> remove_temp(IF partial THEN {temp_file} ELSE {}, temp_file),
              spilled |-> partial]
        ELSE IF fault = "upload"
        THEN [error |-> "OSError", files |-> files,
              temp_files |-> remove_temp({temp_file}, temp_file), spilled |-> TRUE]
        ELSE [error |-> None, files |-> w.files,
              temp_files |-> remove_temp({temp_file}, temp_file), spilled |-> TRUE]

\* _read_from_mock
_read_from_mock_spill(files, mock_path, fault) ==
    LET temp_file == "/tmp/parquet_read_{uuid4}.parquet"
    IN  IF ~path_exists(files, mock_path)
        THEN [error |-> "FileNotFoundError", files |-> files, temp_files |-> {},
              spilled |-> FALSE]
        ELSE IF fault = "read"
        THEN [error |-> "ArrowError", files |-> files,
              temp_files |-> remove_temp({temp_file}, temp_file), spilled |-> TRUE]
        ELSE [error |-> None, files |-> files,
              temp_files |-> remove_temp({temp_file}, temp_file), spilled |-> TRUE]

\* BorelogWriter.save_draft with its temporary file: _write_parquet_to_temp
\* unlinks in its except clause, _upload_parquet_from_temp in its finally
\* clause (which the overwrite guard stands before), save_draft in its except
\* clause while temp_parquet_path is set
save_draft_spill(objects, project_id, borelog_id, records, created_by, now, fault) ==
    LET temp_path == "/tmp/tmp{random}.parquet"
        mkey == legacy_metadata_key(project_id, borelog_id)
        metadata == IF mkey \in DOMAIN objects THEN objects[mkey]
                    ELSE EmptyLegacyMetadata(project_id, borelog_id)
        next_version == metadata.latest_version + 1
        pkey == legacy_parquet_key(project_id, borelog_id, next_version)
        uploaded == put_object(objects, pkey, records)
        entry == [version |-> next_version, status |-> "DRAFT",
                  created_by |-> created_by, created_at |-> now,
                  approved_by |-> None, approved_at |-> None]
        updated == [metadata EXCEPT !.latest_version = next_version,
                                    !.versions = Append(@, entry)]
    IN  IF fault = "encode"
        THEN [error |-> "ArrowError", files |-> objects,
              temp_files |-> remove_temp({temp_path}, temp_path), spilled |-> TRUE]
        ELSE IF pkey \in DOMAIN objects
        THEN [error |-> "ValueError", files |-> objects,
              temp_files |-> remove_temp({temp_path}, temp_path), spilled |-> TRUE]
        ELSE IF fault = "upload"
        THEN [error |-> "ClientError", files |-> objects,
              temp_files |-> remove_temp(remove_temp({temp_path}, temp_path), temp_path),
              spilled |-> TRUE]
        ELSE IF fault = "metadata"
        THEN [error |-> "ClientError", files |-> uploaded,
              temp_files |-> remove_temp({temp_path}, temp_path), spilled |-> TRUE]
        ELSE [error |-> None, files |-> put_object(uploaded, mkey, updated),
              temp_files |-> remove_temp({temp_path}, temp_path), spilled |-> TRUE]

\* BorelogReader._read_parquet_from_s3: mkstemp, get_object into the file,
\* pd.read_parquet, unlink in the finally clause
_read_parquet_from_s3(objects, project_id, borelog_id, version, fault) ==
    LET temp_path == "/tmp/tmp{random}.parquet"
        pkey == legacy_parquet_key(project_id, borelog_id, version)
    IN  IF pkey \notin DOMAIN objects
        THEN [error |-> "ValueError", files |-> objects,
              temp_files |-> remove_temp({temp_path}, temp_path), spilled |-> TRUE]
        ELSE IF fault = "download"
        THEN [error |-> "ClientError", files |-> objects,
              temp_files |-> remove_temp({temp_path}, temp_path), spilled |-> TRUE]
        ELSE IF fault = "read"
        THEN [error |-> "ValueError", files |-> objects,
              temp_files |-> remove_temp({temp_path}, temp_path), spilled |-> TRUE]
        ELSE [error |-> None, files |-> objects,
              temp_files |-> remove_temp({temp_path}, temp_path), spilled |-> TRUE]

\* the call returned: what it was, how it ended, what it left under /tmp
Spilled(op, fault, r) ==
    last' = [op |-> op, record_id |-> None, fault |-> fault,
             result |-> IF r.error = None THEN "ok" ELSE r.error,
             temp_files |-> r.temp_files, spilled |-> r.spilled]

\* the data files of one record in the mock store
SpillPaths == {_generate_unique_path(_get_version_file_path("r1", v), "s1") : v \in 1..MaxFiles}
SpillFrames == [schema : {"SCHEMA_BORELOG_VERSIONS"}, rows : Rows]

WriteToMock ==
    \E mock_path \in SpillPaths, dataframe \in SpillFrames, overwrite \in BOOLEAN,
       fault \in {"none", "encode", "upload"}, partial \in BOOLEAN :
        LET r == _write_to_mock_spill(parquet_files, mock_path, dataframe, overwrite,
                                      fault, partial)
        IN  /\ Spilled("_write_to_mock", fault, r)
            /\ parquet_files' = r.files
            /\ UNCHANGED <<mode, metadata_json, pc, call, s3_objects>>

ReadFromMock ==
    \E mock_path \in SpillPaths, fault \in {"none", "read"} :
        LET r == _read_from_mock_spill(parquet_files, mock_path, fault)
        IN  /\ Spilled("_read_from_mock", fault, r)
            /\ UNCHANGED <<mode, metadata_json, parquet_files, pc, call, s3_objects>>

SaveDraftSpill ==
    \E created_by \in LegacyUsers, now \in Timestamps,
       fault \in {"none", "encode", "upload", "metadata"} :
        LET r == save_draft_spill(s3_objects, "p1", "b1", "records", created_by, now, fault)
            mkey == legacy_metadata_key("p1", "b1")
        IN  /\ mkey \in DOMAIN s3_objects => s3_objects[mkey].latest_version < MaxFiles
            /\ Spilled("save_draft", fault, r)
            /\ s3_objects' = r.files
            /\ UNCHANGED <<mode, metadata_json, parquet_files, pc, call>>

ReadParquetFromS3 ==
    \E version \in 1..(MaxFiles + 1), fault \in {"none", "download", "read"} :
        LET r == _read_parquet_from_s3(s3_objects, "p1", "b1", version, fault)
        IN  /\ Spilled("_read_parquet_from_s3", fault, r)
            /\ UNCHANGED <<mode, metadata_json, parquet_files, pc, call, s3_objects>>

InitSpill ==
    /\ mode = "mock"
    /\ metadata_json = <<>>
    /\ parquet_files = <<>>
    /\ last = NoCall
    /\ pc = [p \in Procs |-> "idle"]
    /\ call = [p \in Procs |-> Idle]
    /\ s3_objects = <<>>

NextSpill == WriteToMock \/ ReadFromMock \/ SaveDraftSpill \/ ReadParquetFromS3

SpecSpill == InitSpill /\ [][NextSpill]_vars

\* ------------------------------------- interleaved draft saves (legacy)
\* Two callers of BorelogWriter.save_draft on one borelog. The handler is cut
\* at its object-store operations: get_object of metadata.json, head_object of
\* the data key (guard_against_overwrite), put_object of the data file,
\* put_object of metadata.json.

\* each caller saves records of its own
RecordsOf(p) == IF p = 1 THEN "records_a" ELSE "records_b"

LegacyUserOf(p) == IF p = 1 THEN "u1" ELSE "u2"

\* the handler of caller p ends
LegacyReturn(p, result) ==
    /\ last' = [op |-> "save_draft", record_id |-> None, result |-> result]
    /\ pc' = [pc EXCEPT ![p] = "idle"]
    /\ call' = [call EXCEPT ![p] = Idle]

\* _read_metadata and the next version computed from it
save_draft_entry(p) ==
    LET mkey == legacy_metadata_key("p1", "b1")
        metadata == IF mkey \in DOMAIN s3_objects THEN s3_objects[mkey]
                    ELSE EmptyLegacyMetadata("p1", "b1")
    IN  /\ pc[p] = "idle"
        /\ metadata.latest_version + 1 <= MaxFiles
        /\ pc' = [pc EXCEPT ![p] = "guard"]
        /\ call' = [call EXCEPT ![p] =
                       [op |-> "save_draft", record_id |-> None,
                        user |-> LegacyUserOf(p), records |-> RecordsOf(p),
                        metadata |-> metadata,
                        parquet_key |-> legacy_parquet_key("p1", "b1",
                                                           metadata.latest_version + 1)]]
        /\ UNCHANGED <<mode, metadata_json, parquet_files, last, s3_objects>>

\* guard_against_overwrite in _upload_parquet_from_temp
overwrite_guard(p) ==
    /\ pc[p] = "guard"
    /\ IF call[p].parquet_key \in DOMAIN s3_objects
       THEN LegacyReturn(p, "ValueError")
       ELSE /\ pc' = [pc EXCEPT ![p] = "upload"]
            /\ UNCHANGED <<call, last>>
    /\ UNCHANGED <<mode, metadata_json, parquet_files, s3_objects>>

\* s3.put_object of the data file
upload_parquet(p) ==
    /\ pc[p] = "upload"
    /\ s3_objects' = put_object(s3_objects, call[p].parquet_key, call[p].records)
    /\ pc' = [pc EXCEPT ![p] = "write_legacy_metadata"]
    /\ UNCHANGED <<mode, metadata_json, parquet_files, last, call>>

\* the version entry appended to the document read at entry, and _write_metadata
write_legacy_metadata(p) ==
    /\ pc[p] = "write_legacy_metadata"
    /\ \E now \in Timestamps :
         LET next_version == call[p].metadata.latest_version + 1
             entry == [version |-> next_version, status |-> "DRAFT",
                       created_by |-> call[p].user, created_at |-> now,
                       approved_by |-> None, approved_at |-> None]
             updated == [call[p].metadata EXCEPT !.latest_version = next_version,
                                                 !.versions = Append(@, entry)]
         IN  s3_objects' = put_object(s3_objects, legacy_metadata_key("p1", "b1"), updated)
    /\ LegacyReturn(p, "ok")
    /\ UNCHANGED <<mode, metadata_json, parquet_files>>

NextLegacyConc ==
    \E p \in Procs :
        \/ save_draft_entry(p)
        \/ overwrite_guard(p)
        \/ upload_parquet(p)
        \/ write_legacy_metadata(p)

SpecLegacyConc == InitLegacy /\ [][NextLegacyConc]_vars

\* ---------------------------------------------- template rows (SpecTemplate)
\* _build_template_strata over the data rows of a template sheet. A cell text
\* is a sequence of parts: a numeral, one dash character, one blank, or a run
\* of other characters. A parsed float is <<>> for None and <<n>> for the
\* number of tenths n; an absent string is <<>>. The columns of run length,
\* core lengths, TCR, RQD and N value are read exactly like the sample depth
\* column and are left out, as are the stratum fields copied without a test.

\* no more data rows than this follow the header of a sheet
MaxTemplateRows == 2

Numerals == {"0", "1.5", "2.5", "3.0", "4.0"}

\* float() of a numeral, in tenths
float(numeral) ==
    CASE numeral = "0" -> 0
      [] numeral = "1.5" -> 15
      [] numeral = "2.5" -> 25
      [] numeral = "3.0" -> 30
      [] numeral = "4.0" -> 40

Blank == " "

\* the four characters of the class [-...] of the depth pattern as the source
\* file spells it: the hyphen and U+00E2, U+20AC, U+201C
RangeDashes == {"-", "a_circumflex", "euro_sign", "left_double_quotation_mark"}

\* U+2013
EnDash == "en_dash"

\* the header keywords of _is_sub_header_row that occur in lower(part)
header_keywords_in(part) ==
    CASE part = "From" -> {"from"}
      [] part = "To" -> {"to"}
      [] part = "Thickness" -> {"thickness"}
      [] part = "Disturbed sample" -> {"sample"}
      [] part = "Stone fragments" -> {"to"}
      [] OTHER -> {}

\* the footer markers of _is_template_footer that occur in lower(part)
footer_markers_in(part) ==
    CASE part = "End of log" -> {"end of log"}
      [] OTHER -> {}

TemplateColumns == {"description", "depth_from", "depth_to", "thickness", "sample_type",
                    "sample_depth", "spt_blows_1", "spt_blows_2", "spt_blows_3", "remarks"}

RECURSIVE lstrip(_)
lstrip(parts) ==
    IF parts # <<>> /\ Head(parts) = Blank THEN lstrip(Tail(parts)) ELSE parts

RECURSIVE rstrip(_)
rstrip(parts) ==
    IF parts # <<>> /\ parts[Len(parts)] = Blank
    THEN rstrip(SubSeq(parts, 1, Len(parts) - 1))
    ELSE parts

\* str.strip on a cell text
strip_parts(parts) == rstrip(lstrip(parts))

_normalize_row(row) == [c \in DOMAIN row |-> strip_parts(row[c])]

_has_meaningful_data(row) == \E c \in DOMAIN row : row[c] # <<>>

_is_template_footer(row) ==
    \E c \in DOMAIN row : \E i \in 1..Len(row[c]) : footer_markers_in(row[c][i]) # {}

_is_sub_header_row(row) ==
    LET has_numbers == \E c \in DOMAIN row : \E i \in 1..Len(row[c]) : row[c][i] \in Numerals
        has_header_keywords ==
            \E c \in DOMAIN row : \E i \in 1..Len(row[c]) : header_keywords_in(row[c][i]) # {}
    IN  /\ has_header_keywords
        /\ ~has_numbers
        /\ Cardinality({c \in DOMAIN row : strip_parts(row[c]) # <<>>}) <= 5

\* column_map is the set of fields that the header row mapped to a column
_value_from_row(row, column_map, field) ==
    IF field \notin column_map THEN <<>> ELSE strip_parts(row[field])

_safe_number(value) ==
    IF Len(strip_parts(value)) = 1 /\ strip_parts(value)[1] \in Numerals
    THEN <<float(strip_parts(value)[1])>>
    ELSE <<>>

_safe_string(value) == strip_parts(value)

_calculate_thickness(depth_from, depth_to) == <<depth_to[1] - depth_from[1]>>

\* the first position at or after i that holds no blank
RECURSIVE skip_blanks(_, _)
skip_blanks(parts, i) ==
    IF i <= Len(parts) /\ parts[i] = Blank THEN skip_blanks(parts, i + 1) ELSE i

\* the depth pattern (\d+(?:\.\d+)?)\s*[-...]\s*(\d+(?:\.\d+)?) matches from part i
range_at(parts, i) ==
    /\ parts[i] \in Numerals
    /\ LET j == skip_blanks(parts, i + 1)
       IN  /\ j <= Len(parts)
           /\ parts[j] \in RangeDashes
           /\ LET k == skip_blanks(parts, j + 1)
              IN  k <= Len(parts) /\ parts[k] \in Numerals

\* re.search of the depth pattern: start 0 stands for no match
re_search(parts) ==
    LET starts == {i \in 1..Len(parts) : range_at(parts, i)}
    IN  IF starts = {}
        THEN [start |-> 0, group1 |-> <<>>, group2 |-> <<>>]
        ELSE LET i == CHOOSE x \in starts : \A y \in starts : x <= y
                 k == skip_blanks(parts, skip_blanks(parts, i + 1) + 1)
             IN  [start |-> i, group1 |-> <<float(parts[i])>>, group2 |-> <<float(parts[k])>>]

\* description and depths of a row after the attempt to parse depths from the
\* description
stratum_fields(row, column_map) ==
    LET description == _value_from_row(row, column_map, "description")
        depth_from == _safe_number(_value_from_row(row, column_map, "depth_from"))
        depth_to == _safe_number(_value_from_row(row, column_map, "depth_to"))
        thickness == _safe_number(_value_from_row(row, column_map, "thickness"))
        match == re_search(description)
        desc_clean == strip_parts(SubSeq(description, 1, match.start - 1))
    IN  IF description # <<>> /\ (depth_from = <<>> \/ depth_to = <<>>) /\ match.start # 0
        THEN [description |-> IF desc_clean # <<>> THEN desc_clean ELSE description,
              depth_from |-> IF depth_from = <<>> THEN match.group1 ELSE depth_from,
              depth_to |-> IF depth_to = <<>> THEN match.group2 ELSE depth_to,
              thickness |-> thickness]
        ELSE [description |-> description, depth_from |-> depth_from,
              depth_to |-> depth_to, thickness |-> thickness]

\* a stratum row only with both depths
is_stratum_row_depths_only(row, column_map) ==
    LET f == stratum_fields(row, column_map)
    IN  /\ strip_parts(f.description) # <<>>
        /\ f.depth_from # <<>>
        /\ f.depth_to # <<>>

is_stratum_row(row, column_map) ==
    LET f == stratum_fields(row, column_map)
        has_description == strip_parts(f.description) # <<>>
        has_from_to == f.depth_from # <<>> /\ f.depth_to # <<>>
        has_thickness == f.thickness # <<>>
    IN  has_description /\ (has_from_to \/ has_thickness)

\* the stratum of a stratum row, still without samples
new_stratum(row, column_map) ==
    LET f == stratum_fields(row, column_map)
        has_from_to == f.depth_from # <<>> /\ f.depth_to # <<>>
    IN  [description |-> strip_parts(f.description),
         depth_from |-> IF has_from_to THEN f.depth_from ELSE <<>>,
         depth_to |-> IF has_from_to THEN f.depth_to ELSE <<>>,
         thickness |-> IF f.thickness = <<>> /\ has_from_to
                       THEN _calculate_thickness(f.depth_from, f.depth_to)
                       ELSE f.thickness,
         samples |-> <<>>]

\* the blow counts read from the mapped "15 cm" columns
spt_blows_read(row, column_map) ==
    LET blow(field) == IF field \in column_map
                       THEN <<_safe_number(_value_from_row(row, column_map, field))>>
                       ELSE <<>>
    IN  blow("spt_blows_1") \o blow("spt_blows_2") \o blow("spt_blows_3")

\* while len(spt_blows_list) < 3: spt_blows_list.append(None)
RECURSIVE pad_blows(_)
pad_blows(spt_blows_list) ==
    IF Len(spt_blows_list) < 3 THEN pad_blows(Append(spt_blows_list, <<>>)) ELSE spt_blows_list

\* <<>> stands for None, <<sample>> for a sample
_build_sample_from_template_row(row, column_map) ==
    LET sample_type == _value_from_row(row, column_map, "sample_type")
        sample_depth == _safe_number(_value_from_row(row, column_map, "sample_depth"))
        spt_blows_list == pad_blows(spt_blows_read(row, column_map))
        remarks == _value_from_row(row, column_map, "remarks")
        has_blow_values == \E i \in 1..Len(spt_blows_list) : spt_blows_list[i] # <<>>
        has_any_data == \/ sample_type # <<>> /\ sample_type # <<"-">>
                        \/ sample_depth # <<>>
                        \/ has_blow_values
                        \/ remarks # <<>> /\ remarks # <<"-">>
    IN  IF ~has_any_data
        THEN <<>>
        ELSE <<[sample_event_type |-> _safe_string(sample_type),
                sample_event_depth_m |-> sample_depth,
                penetration_15cm |-> SubSeq(spt_blows_list, 1, 3),
                remarks |-> _safe_string(remarks)]>>

\* the same row with other cells
EmptyRow == [c \in TemplateColumns |-> <<>>]

Cell(row, column, text) == [row EXCEPT ![column] = text]

DepthRow(description, depth_from, depth_to) ==
    [EmptyRow EXCEPT !.description = description, !.depth_from = depth_from,
                     !.depth_to = depth_to]

TemplateRows ==
    { EmptyRow,
      DepthRow(<<"Clay">>, <<"0">>, <<"1.5">>),
      Cell(Cell(DepthRow(<<"Clay">>, <<"1.5">>, <<"3.0">>), "sample_type", <<"UDS">>),
           "spt_blows_1", <<"2.5">>),
      Cell(Cell(EmptyRow, "description", <<"Clay">>), "thickness", <<"1.5">>),
      Cell(EmptyRow, "description", <<"Clay">>),
      Cell(EmptyRow, "description",
           <<"Dense silty sand,", Blank, "2.5", "-", "4.0", Blank, "m">>),
      Cell(EmptyRow, "description",
           <<"Dense silty sand,", Blank, "2.5", EnDash, "4.0", Blank, "m">>),
      Cell(EmptyRow, "description", <<"1.5", "-", "3.0">>),
      Cell(Cell(EmptyRow, "sample_type", <<"UDS">>), "sample_depth", <<"1.5">>),
      Cell(EmptyRow, "sample_type", <<"Disturbed sample">>),
      Cell(EmptyRow, "sample_type", <<"-">>),
      Cell(EmptyRow, "remarks", <<"Refusal">>),
      Cell(EmptyRow, "remarks", <<"Stone fragments">>),
      DepthRow(<<>>, <<"From">>, <<"To">>),
      Cell(EmptyRow, "description", <<"End of log">>),
      Cell(DepthRow(<<"Clay">>, <<"3.0">>, <<"4.0">>), "remarks", <<"End of log">>) }

\* a header with one "15 cm" column and a header with three
ColumnMaps == { TemplateColumns \ {"spt_blows_2", "spt_blows_3"}, TemplateColumns }

RECURSIVE RowLists(_)
RowLists(n) ==
    IF n = 0 THEN {<<>>}
    ELSE LET shorter == RowLists(n - 1)
         IN  shorter \cup {Append(rows, row) : rows \in {r \in shorter : Len(r) = n - 1},
                                                row \in TemplateRows}

\* the loop of _build_template_strata before its first row
InitTemplate ==
    /\ mode = "s3"
    /\ metadata_json = <<>>
    /\ parquet_files = <<>>
    /\ s3_objects = <<>>
    /\ pc = [p \in Procs |-> "idle"]
    /\ call = [p \in Procs |-> Idle]
    /\ \E rows \in RowLists(MaxTemplateRows), column_map \in ColumnMaps :
         last = [op |-> "upload", record_id |-> None, rows |-> rows,
                 column_map |-> column_map, consumed |-> 0, stopped |-> FALSE,
                 strata |-> <<>>]

\* the row that the iterator hands out next
NextRow == _normalize_row(last.rows[last.consumed + 1])

RowsLeft == ~last.stopped /\ last.consumed < Len(last.rows)

Consume(op, stopped, strata) ==
    /\ last' = [last EXCEPT !.op = op, !.consumed = @ + 1, !.stopped = stopped,
                            !.strata = strata]
    /\ UNCHANGED <<mode, metadata_json, parquet_files, pc, call, s3_objects>>

\* strata with the sample, if there is one, appended to the current stratum,
\* which is the stratum appended last
attach_sample(strata, sample) ==
    IF strata = <<>> \/ sample = <<>> THEN strata
    ELSE [strata EXCEPT ![Len(strata)].samples = @ \o sample]

\* continue: a row without data or a sub-header row
SkipRow ==
    /\ RowsLeft
    /\ \/ ~_has_meaningful_data(NextRow)
       \/ ~_is_template_footer(NextRow) /\ _is_sub_header_row(NextRow)
    /\ Consume("skip_row", FALSE, last.strata)

\* break
FooterRow ==
    /\ RowsLeft
    /\ _has_meaningful_data(NextRow)
    /\ _is_template_footer(NextRow)
    /\ Consume("footer_row", TRUE, last.strata)

Classified(row) ==
    /\ _has_meaningful_data(row)
    /\ ~_is_template_footer(row)
    /\ ~_is_sub_header_row(row)

StratumRow ==
    /\ RowsLeft
    /\ Classified(NextRow)
    /\ is_stratum_row(NextRow, last.column_map)
    /\ Consume("stratum_row", FALSE,
               attach_sample(Append(last.strata, new_stratum(NextRow, last.column_map)),
                             _build_sample_from_template_row(NextRow, last.column_map)))

SampleRow ==
    /\ RowsLeft
    /\ Classified(NextRow)
    /\ ~is_stratum_row(NextRow, last.column_map)
    /\ Consume("sample_row", FALSE,
               attach_sample(last.strata,
                             _build_sample_from_template_row(NextRow, last.column_map)))

NextTemplate ==
    \/ SkipRow
    \/ FooterRow
    \/ StratumRow
    \/ SampleRow

SpecTemplate == InitTemplate /\ [][NextTemplate]_vars

\* ------------------------------------------ interleaved handlers (SpecConc)
\* Each handler is cut at its object-store operations: the metadata read and the
\* checks that follow it, the exists check of the data file, the put of the
\* data file, and the metadata write.

\* the handler of caller p ends: its result is recorded, its locals are dropped
Return(p, result) ==
    /\ last' = [op |-> call[p].op, record_id |-> call[p].record_id, result |-> result]
    /\ pc' = [pc EXCEPT ![p] = "idle"]
    /\ call' = [call EXCEPT ![p] = Idle]

\* the handler of caller p raises in its first step
RaiseAtEntry(p, op, record_id, error) ==
    /\ last' = [op |-> op, record_id |-> record_id, result |-> error]
    /\ UNCHANGED <<mode, metadata_json, parquet_files, pc, call, s3_objects>>

\* create_record up to the path write_parquet generates
create_record_entry(p, record_id, dataframe, table_name, created_by, comment, expected_schema) ==
    /\ pc[p] = "idle"
    /\ LET existing_metadata == _read_metadata(record_id)
           schema == resolve_schema(expected_schema, table_name)
       IN  IF existing_metadata # NoMetadata
           THEN RaiseAtEntry(p, "create_record", record_id, "ValueError")
           ELSE IF schema = None \/ ~validate_schema(dataframe, schema)
           THEN RaiseAtEntry(p, "create_record", record_id, "ValueError")
           ELSE IF dataframe.rows = EmptyRows
           THEN RaiseAtEntry(p, "create_record", record_id, "ValueError")
           ELSE /\ Cardinality(DOMAIN parquet_files) < MaxFiles
                /\ \E suffix \in Suffixes, now \in Timestamps :
                     /\ call' = [call EXCEPT ![p] =
                            [op |-> "create_record", record_id |-> record_id,
                             dataframe |-> dataframe, user |-> created_by,
                             comment |-> comment,
                             metadata |-> new_metadata(record_id, table_name, created_by, now),
                             full_path |-> _generate_unique_path(
                                              _get_version_file_path(record_id, 1), suffix)]]
                     /\ pc' = [pc EXCEPT ![p] = "exists_check"]
                     /\ UNCHANGED <<mode, metadata_json, parquet_files, last, s3_objects>>

\* update_record up to the path write_parquet generates
update_record_entry(p, record_id, dataframe, updated_by, comment, expected_schema) ==
    /\ pc[p] = "idle"
    /\ LET metadata == _read_metadata(record_id)
       IN  IF metadata = NoMetadata
           THEN RaiseAtEntry(p, "update_record", record_id, "ValueError")
           ELSE LET schema == resolve_schema(expected_schema, metadata.table_name)
                    new_version == metadata.current_version + 1
                IN  IF schema = None \/ ~validate_schema(dataframe, schema)
                    THEN RaiseAtEntry(p, "update_record", record_id, "ValueError")
                    ELSE IF dataframe.rows = EmptyRows
                    THEN RaiseAtEntry(p, "update_record", record_id, "ValueError")
                    ELSE /\ Len(metadata.history) < MaxHistory
                         /\ Cardinality(DOMAIN parquet_files) < MaxFiles
                         /\ \E suffix \in Suffixes :
                              /\ call' = [call EXCEPT ![p] =
                                     [op |-> "update_record", record_id |-> record_id,
                                      dataframe |-> dataframe, user |-> updated_by,
                                      comment |-> comment, metadata |-> metadata,
                                      full_path |-> _generate_unique_path(
                                          _get_version_file_path(record_id, new_version),
                                          suffix)]]
                              /\ pc' = [pc EXCEPT ![p] = "exists_check"]
                              /\ UNCHANGED <<mode, metadata_json, parquet_files, last, s3_objects>>

\* the overwrite guard of _write_to_s3 / _write_to_mock / _write_to_local
exists_check(p) ==
    /\ pc[p] = "exists_check"
    /\ LET w == CASE mode = "s3" ->
                       _write_to_s3(parquet_files, call[p].full_path, call[p].dataframe, FALSE)
                  [] mode = "local" ->
                       _write_to_local(parquet_files, call[p].full_path, call[p].dataframe, FALSE)
                  [] OTHER ->
                       _write_to_mock(parquet_files, call[p].full_path, call[p].dataframe, FALSE)
       IN  IF w.error # None
           THEN Return(p, "IOError") /\ UNCHANGED <<mode, metadata_json, parquet_files, s3_objects>>
           ELSE /\ pc' = [pc EXCEPT ![p] = "put"]
                /\ UNCHANGED <<mode, metadata_json, parquet_files, last, call, s3_objects>>

\* put_object / write_file of the data file
put_data(p) ==
    /\ pc[p] = "put"
    /\ parquet_files' = put_object(parquet_files, call[p].full_path,
                                   to_parquet(call[p].dataframe))
    /\ pc' = [pc EXCEPT ![p] = "write_metadata"]
    /\ UNCHANGED <<mode, metadata_json, last, call, s3_objects>>

\* approve_record up to its metadata write
approve_record_entry(p, record_id, approved_by, comment) ==
    /\ pc[p] = "idle"
    /\ LET metadata == _read_metadata(record_id)
       IN  IF approve_error(metadata) # None
           THEN RaiseAtEntry(p, "approve_record", record_id, approve_error(metadata))
           ELSE /\ Len(metadata.history) < MaxHistory
                /\ call' = [call EXCEPT ![p] =
                       [Idle EXCEPT !.op = "approve_record", !.record_id = record_id,
                                    !.user = approved_by, !.comment = comment,
                                    !.metadata = metadata]]
                /\ pc' = [pc EXCEPT ![p] = "write_metadata"]
                /\ UNCHANGED <<mode, metadata_json, parquet_files, last, s3_objects>>

\* reject_record up to its metadata write
reject_record_entry(p, record_id, rejected_by, comment) ==
    /\ pc[p] = "idle"
    /\ LET metadata == _read_metadata(record_id)
       IN  IF reject_error(metadata) # None
           THEN RaiseAtEntry(p, "reject_record", record_id, reject_error(metadata))
           ELSE /\ Len(metadata.history) < MaxHistory
                /\ call' = [call EXCEPT ![p] =
                       [Idle EXCEPT !.op = "reject_record", !.record_id = record_id,
                                    !.user = rejected_by, !.comment = comment,
                                    !.metadata = metadata]]
                /\ pc' = [pc EXCEPT ![p] = "write_metadata"]
                /\ UNCHANGED <<mode, metadata_json, parquet_files, last, s3_objects>>

\* the document a handler writes, from the document it read and its arguments
metadata_to_write(c, now) ==
    CASE c.op = "create_record" ->
            _add_history_entry(c.metadata, 1, DRAFT, c.user,
                               comment_or(c.comment, "Initial creation"), now)
      [] c.op = "update_record" ->
            _add_history_entry(
                update_metadata(c.metadata, c.metadata.current_version + 1),
                c.metadata.current_version + 1, DRAFT, c.user,
                comment_or(c.comment, updated_to_version(c.metadata.current_version + 1)),
                now)
      [] c.op = "approve_record" ->
            _add_history_entry(approve_metadata(c.metadata, c.user, now),
                               c.metadata.current_version, APPROVED, c.user,
                               comment_or(c.comment, "Record approved"), now)
      [] OTHER ->
            _add_history_entry(reject_metadata(c.metadata, c.user, now),
                               c.metadata.current_version, REJECTED, c.user,
                               comment_or(c.comment, "Record rejected"), now)

\* the metadata write that ends every successful handler
write_metadata(p) ==
    /\ pc[p] = "write_metadata"
    /\ \E now \in Timestamps :
          metadata_json' = _write_metadata(metadata_json, call[p].record_id,
                                           metadata_to_write(call[p], now))
    /\ Return(p, "ok")
    /\ UNCHANGED <<mode, parquet_files, s3_objects>>

\* in SpecConc each caller is one user with one payload of its own
CallerOf(p) ==
    IF p = 1 THEN [user |-> "u1", comment |-> None] ELSE [user |-> "u2", comment |-> "note"]

DataFramesOf(p) ==
    {[schema |-> "SCHEMA_BORELOG_VERSIONS", rows |-> IF p = 1 THEN "rows_a" ELSE "rows_b"],
     [schema |-> "SCHEMA_UNIFIED_LAB_REPORTS", rows |-> "rows_a"]}

NextConc ==
    \E p \in Procs :
        \/ \E record_id \in RecordIds, dataframe \in DataFramesOf(p), table_name \in Tables,
              expected_schema \in ExpectedSchemas :
               create_record_entry(p, record_id, dataframe, table_name, CallerOf(p).user,
                                   CallerOf(p).comment, expected_schema)
        \/ \E record_id \in RecordIds, dataframe \in DataFramesOf(p),
              expected_schema \in ExpectedSchemas :
               update_record_entry(p, record_id, dataframe, CallerOf(p).user,
                                   CallerOf(p).comment, expected_schema)
        \/ \E record_id \in RecordIds :
               approve_record_entry(p, record_id, CallerOf(p).user, CallerOf(p).comment)
        \/ \E record_id \in RecordIds :
               reject_record_entry(p, record_id, CallerOf(p).user, CallerOf(p).comment)
        \/ exists_check(p)
        \/ put_data(p)
        \/ write_metadata(p)

SpecConc == Init /\ [][NextConc]_vars

\* ------------------------------------------------------------- claims
\* the stored history of a record, empty while it has no metadata
HistoryOf(store, record_id) ==
    IF record_id \in DOMAIN store THEN store[record_id].history ELSE <<>>

Last(seq) == seq[Len(seq)]

\* C1: a step never changes or removes the bytes of a data file that exists,
\* and a step of approve_record or reject_record changes no data file at all.
C1_VersionFilesImmutable ==
    [][ /\ \A k \in DOMAIN parquet_files :
              k \in DOMAIN parquet_files' /\ parquet_files'[k] = parquet_files[k]
        /\ last'.op \in {"approve_record", "reject_record"}
              => parquet_files' = parquet_files ]_vars

\* an update succeeded while the file of version 1 was there
C1_Witness ==
    /\ last.op = "update_record" /\ last.result = "ok"
    /\ \E k \in DOMAIN parquet_files : k.record_id = last.record_id /\ k.stem = 1

\* C2: for every record with metadata and every v in 1..current_version, the
\* key versions/v{v}.parquet holds an object and read_parquet of it succeeds.
C2_AllVersionsReadable ==
    \A r \in DOMAIN metadata_json :
        \A v \in 1..metadata_json[r].current_version :
            /\ path_exists(parquet_files, _get_version_file_path(r, v))
            /\ read_parquet(parquet_files, _get_version_file_path(r, v)).error = None

\* C4: the status of a record changes only draft->approved by approve_record,
\* draft->rejected by reject_record, and approved->draft or rejected->draft by
\* update_record; never approved->rejected or rejected->approved.
C4_StatusTransitions ==
    [][ \A r \in DOMAIN metadata_json :
          /\ r \in DOMAIN metadata_json'
          /\ LET s == metadata_json[r].status
                 t == metadata_json'[r].status
             IN  s # t =>
                   /\ last'.record_id = r /\ last'.result = "ok"
                   /\ \/ s = DRAFT /\ t = APPROVED /\ last'.op = "approve_record"
                      \/ s = DRAFT /\ t = REJECTED /\ last'.op = "reject_record"
                      \/ s = APPROVED /\ t = DRAFT /\ last'.op = "update_record"
                      \/ s = REJECTED /\ t = DRAFT /\ last'.op = "update_record" ]_vars

\* a rejected record was updated and is a draft again
C4_Witness ==
    \E r \in DOMAIN metadata_json :
        /\ metadata_json[r].status = DRAFT
        /\ \E i \in 1..Len(metadata_json[r].history) :
              metadata_json[r].history[i].status = REJECTED

\* C5: a step of approve_record on a record without metadata, or whose status
\* is approved or rejected, ends with an error and leaves the metadata store as
\* it was; no history holds two approved entries in a row.
C5_ApproveFailsUnlessDraft ==
    [][ /\ \A r \in RecordIds, c \in Callers :
              approve_record(r, c.user, c.comment) =>
                LET m == _read_metadata(r)
                IN  (m = NoMetadata \/ m.status \in {APPROVED, REJECTED}) =>
                        /\ last'.op = "approve_record"
                        /\ last'.result = "ValueError"
                        /\ metadata_json' = metadata_json
        /\ \A r \in DOMAIN metadata_json' :
              \A i \in 1..(Len(metadata_json'[r].history) - 1) :
                  ~ /\ metadata_json'[r].history[i].status = APPROVED
                    /\ metadata_json'[r].history[i + 1].status = APPROVED ]_vars

\* approve_record was called on an approved record and failed
C5_Witness ==
    /\ last.op = "approve_record" /\ last.result = "ValueError"
    /\ last.record_id \in DOMAIN metadata_json
    /\ metadata_json[last.record_id].status = APPROVED

\* C6: a step of reject_record fails and leaves the metadata store as it was
\* when the record has no metadata or is approved or rejected; on a draft it
\* sets status = rejected, rejected_by = the caller, rejected_at, and appends
\* one rejected entry at current_version, changing nothing else.
C6_RejectSymmetric ==
    [][ \A r \in RecordIds, c \in Callers :
          reject_record(r, c.user, c.comment) =>
            LET m == _read_metadata(r)
            IN  IF m = NoMetadata \/ m.status \in {APPROVED, REJECTED}
                THEN /\ last'.result = "ValueError"
                     /\ metadata_json' = metadata_json
                ELSE /\ last'.result = "ok"
                     /\ LET n == metadata_json'[r]
                        IN  /\ n.status = REJECTED
                            /\ n.rejected_by = c.user
                            /\ n.rejected_at \in Timestamps
                            /\ n.approved_by = m.approved_by
                            /\ n.approved_at = m.approved_at
                            /\ n.current_version = m.current_version
                            /\ Len(n.history) = Len(m.history) + 1
                            /\ SubSeq(n.history, 1, Len(m.history)) = m.history
                            /\ Last(n.history).status = REJECTED
                            /\ Last(n.history).version = m.current_version
                            /\ Last(n.history).created_by = c.user ]_vars

\* reject_record succeeded on a draft record
C6_Witness ==
    /\ last.op = "reject_record" /\ last.result = "ok"
    /\ metadata_json[last.record_id].status = REJECTED
    /\ metadata_json[last.record_id].rejected_by = "u2"

\* C7: a successful create, update, approve or reject makes the stored history
\* one entry longer and keeps the earlier entries in place; any other step
\* leaves every history as it was.
C7_HistoryAppendOnly ==
    [][ \A r \in RecordIds :
          LET h == HistoryOf(metadata_json, r)
              g == HistoryOf(metadata_json', r)
          IN  IF last'.result = "ok" /\ last'.record_id = r
              THEN Len(g) = Len(h) + 1 /\ SubSeq(g, 1, Len(h)) = h
              ELSE g = h ]_vars

\* a history of three entries, the last one written by a successful call
C7_Witness ==
    /\ last.result = "ok"
    /\ Len(HistoryOf(metadata_json, last.record_id)) >= 3

\* C8: history[0] is the draft entry of version 1; a successful update_record
\* appends a draft entry whose version is the new current_version; a successful
\* approve_record or reject_record appends an entry whose version is the
\* current_version of the record when it was called.
C8_HistoryEntries ==
    [][ /\ \A r \in DOMAIN metadata_json' :
              /\ metadata_json'[r].history[1].version = 1
              /\ metadata_json'[r].history[1].status = DRAFT
        /\ \A r \in DOMAIN metadata_json :
              (last'.result = "ok" /\ last'.record_id = r) =>
                LET m == metadata_json[r]
                    n == metadata_json'[r]
                    e == Last(n.history)
                IN  /\ Len(n.history) = Len(m.history) + 1
                    /\ last'.op = "update_record" =>
                          /\ e.status = DRAFT
                          /\ e.version = n.current_version
                          /\ n.current_version = m.current_version + 1
                    /\ last'.op = "approve_record" =>
                          e.status = APPROVED /\ e.version = m.current_version
                    /\ last'.op = "reject_record" =>
                          e.status = REJECTED /\ e.version = m.current_version ]_vars

\* version 2 of a record was approved
C8_Witness ==
    \E r \in DOMAIN metadata_json :
        /\ metadata_json[r].current_version = 2
        /\ Last(metadata_json[r].history).status = APPROVED
        /\ Last(metadata_json[r].history).version = 2

\* the versions of the draft (creation and update) entries of a history, in order
RECURSIVE DraftVersions(_)
DraftVersions(history) ==
    IF history = <<>> THEN <<>>
    ELSE IF Head(history).status = DRAFT
         THEN <<Head(history).version>> \o DraftVersions(Tail(history))
         ELSE DraftVersions(Tail(history))

\* C9 as stated: len(history) >= current_version, and the first current_version
\* entries of history hold a creation/update entry for each version
\* 1..current_version, in ascending version order.
C9_FirstEntriesCoverVersions ==
    \A r \in DOMAIN metadata_json :
        LET m == metadata_json[r]
        IN  /\ Len(m.history) >= m.current_version
            /\ DraftVersions(SubSeq(m.history, 1, m.current_version))
                  = [v \in 1..m.current_version |-> v]

\* C9 amended: len(history) >= current_version, and the creation/update entries
\* of the whole history, in order, are those of versions 1, 2, .., current_version
\* (approval and rejection entries may stand between them).
C9_DraftEntriesCoverVersions ==
    \A r \in DOMAIN metadata_json :
        LET m == metadata_json[r]
        IN  /\ Len(m.history) >= m.current_version
            /\ DraftVersions(m.history) = [v \in 1..m.current_version |-> v]

\* version 1 was approved and then updated: the entry of version 2 is the third
C9_Witness ==
    \E r \in DOMAIN metadata_json :
        /\ metadata_json[r].current_version = 2
        /\ Len(metadata_json[r].history) = 3
        /\ metadata_json[r].history[2].status # DRAFT
        /\ metadata_json[r].history[3].version = 2

\* C10: approved_by and approved_at are non-null exactly when the most recent
\* status transition (the last history entry) is an approval, and rejected_by
\* and rejected_at exactly when it is a rejection.
C10_StampsFollowLastTransition ==
    \A r \in DOMAIN metadata_json :
        LET m == metadata_json[r]
            e == Last(m.history)
        IN  /\ (m.approved_by # None) <=> (e.status = APPROVED)
            /\ (m.approved_at # None) <=> (e.status = APPROVED)
            /\ (m.rejected_by # None) <=> (e.status = REJECTED)
            /\ (m.rejected_at # None) <=> (e.status = REJECTED)

\* C3: of two update_record calls that run at the same time on one record and
\* read the same current_version = N, at most one gets past the write of the
\* data file of version N+1 (the other fails on the overwrite guard): never
\* have both written their data file and reached their metadata write.
C3_OneUpdateWins ==
    \A p, q \in Procs :
        ~ /\ p # q
          /\ call[p].op = "update_record" /\ call[q].op = "update_record"
          /\ call[p].record_id = call[q].record_id
          /\ call[p].metadata.current_version = call[q].metadata.current_version
          /\ pc[p] = "write_metadata" /\ pc[q] = "write_metadata"

\* C11: in every state, a record whose status is approved has approved_by and
\* approved_at set, and a record whose status is rejected has rejected_by and
\* rejected_at set.
C11_StatusHasStamps ==
    \A r \in DOMAIN metadata_json :
        LET m == metadata_json[r]
        IN  /\ m.status = APPROVED => m.approved_by # None /\ m.approved_at # None
            /\ m.status = REJECTED => m.rejected_by # None /\ m.rejected_at # None

\* version 2 of a record stands rejected by u1
C11_Witness ==
    \E r \in DOMAIN metadata_json :
        /\ metadata_json[r].status = REJECTED
        /\ metadata_json[r].current_version = 2
        /\ metadata_json[r].rejected_by = "u1"

\* C12: a successful update_record on a record at current_version = N, in any
\* status, adds the data file of version N+1 and leaves current_version = N+1
\* and status = draft; when it dies after the data write the file is there and
\* the metadata is as before (data first, metadata second); current_version
\* changes in no other step and by no other amount, and starts at 1.
C12_UpdateAdvancesVersion ==
    [][ /\ (last'.op = "update_record" /\ last'.result \in {"ok", "crash"}) =>
              LET r == last'.record_id
                  m == metadata_json[r]
              IN  /\ \E k \in DOMAIN parquet_files' :
                        /\ DOMAIN parquet_files' = DOMAIN parquet_files \cup {k}
                        /\ k \notin DOMAIN parquet_files
                        /\ k.record_id = r /\ k.stem = m.current_version + 1
                  /\ last'.result = "crash" => metadata_json' = metadata_json
                  /\ last'.result = "ok" =>
                        /\ metadata_json'[r].current_version = m.current_version + 1
                        /\ metadata_json'[r].status = DRAFT
        /\ \A r \in DOMAIN metadata_json :
              /\ r \in DOMAIN metadata_json'
              /\ metadata_json'[r].current_version # metadata_json[r].current_version =>
                    /\ last'.op = "update_record" /\ last'.result = "ok"
                    /\ last'.record_id = r
                    /\ metadata_json'[r].current_version
                          = metadata_json[r].current_version + 1
        /\ \A r \in DOMAIN metadata_json' \ DOMAIN metadata_json :
              metadata_json'[r].current_version = 1 ]_vars

\* an approved record was updated: version 2, draft
C12_Witness ==
    /\ last.op = "update_record" /\ last.result = "ok"
    /\ metadata_json[last.record_id].current_version = 2
    /\ metadata_json[last.record_id].status = DRAFT
    /\ metadata_json[last.record_id].history[2].status = APPROVED

C14_UpdateAbsentFails ==
    [][ (last'.op = "update_record" /\ last'.record_id \notin DOMAIN metadata_json) =>
            /\ last'.result = "ValueError"
            /\ metadata_json' = metadata_json
            /\ parquet_files' = parquet_files ]_vars

\* update_record was called on a record that does not exist and failed
C14_Witness ==
    /\ last.op = "update_record" /\ last.result = "ValueError"
    /\ last.record_id \notin DOMAIN metadata_json

\* C15: a write with overwrite forbidden to a key that holds an object fails
\* with the overwrite-forbidden error (FileExistsError) in the engine's mode,
\* and a second write_parquet to a version key that was written before
\* (versions/v{k}.parquet, overwrite forbidden) fails and changes no file.
C15_SecondWriteFails ==
    \A k \in DOMAIN parquet_files :
        \A df \in DataFrames :
            /\ mode = "s3" =>
                  _write_to_s3(parquet_files, k, df, FALSE).error = "FileExistsError"
            /\ mode = "mock" =>
                  _write_to_mock(parquet_files, k, df, FALSE).error = "FileExistsError"
            /\ mode = "local" =>
                  _write_to_local(parquet_files, k, df, FALSE).error = "FileExistsError"
            /\ \A suffix \in Suffixes :
                  LET w == write_parquet(parquet_files,
                                         _get_version_file_path(k.record_id, k.stem),
                                         df, None, FALSE, suffix)
                  IN  w.error # None /\ w.files = parquet_files

\* C16: when a data file of version current_version + 1 is there and the
\* metadata still says current_version (an update_record died between its two
\* writes), the data write of the next update_record, to the key of version
\* current_version + 1 with overwrite forbidden, fails for every payload that
\* passes validation, so that the handler stops before its metadata write.
C16_RetryFailsOnGuard ==
    \A r \in DOMAIN metadata_json :
        LET metadata == metadata_json[r]
            new_version == metadata.current_version + 1
            schema == resolve_schema(None, metadata.table_name)
        IN  (\E k \in DOMAIN parquet_files : k.record_id = r /\ k.stem = new_version) =>
                \A df \in DataFrames, suffix \in Suffixes :
                    (schema # None /\ validate_schema(df, schema)) =>
                        LET w == write_parquet(parquet_files,
                                               _get_version_file_path(r, new_version),
                                               df, schema, FALSE, suffix)
                        IN  w.error # None /\ w.files = parquet_files

\* the read operations
ReadOps == {"get_latest_version", "get_specific_version", "get_all_versions",
            "get_latest", "get_version"}

\* a data file of the record is there and its metadata is not
Orphaned(record_id) ==
    /\ record_id \notin DOMAIN metadata_json
    /\ \E k \in DOMAIN parquet_files : k.record_id = record_id

\* C17: while a record has a data file and no metadata, get_latest_version,
\* get_specific_version, get_all_versions, get_latest and get_version return
\* nothing for it, for every version number asked for.
C17_ReadsFailClosedOnOrphan ==
    \A r \in RecordIds :
        Orphaned(r) =>
            /\ get_latest_version(r) = NoDataFrame
            /\ get_all_versions(r) = <<>>
            /\ get_latest(r) = NoEntity
            /\ \A v \in Versions :
                  get_specific_version(r, v) = NoDataFrame /\ get_version(r, v) = NoEntity
            /\ (last.op \in ReadOps /\ last.record_id = r) => last.result = None

\* get_specific_version was called on a record with a data file and no
\* metadata, and returned None
C17_Witness ==
    /\ last.op = "get_specific_version" /\ last.result = None
    /\ Orphaned(last.record_id)
    /\ \E k \in DOMAIN parquet_files : k.record_id = last.record_id /\ k.stem = 1

\* C18: after a successful create_record or update_record of a record,
\* get_latest_version returns the rows that call was given; it returns None
\* exactly for the records without metadata.
C18_LatestIsLastWritten ==
    [][ /\ \A r \in RecordIds, df \in DataFrames, t \in Tables, c \in Callers,
              e \in ExpectedSchemas :
              (create_record(r, df, t, c.user, c.comment, e) /\ last'.result = "ok") =>
                  get_latest_version(r)' = df
        /\ \A r \in RecordIds, df \in DataFrames, c \in Callers, e \in ExpectedSchemas :
              (update_record(r, df, c.user, c.comment, e) /\ last'.result = "ok") =>
                  get_latest_version(r)' = df
        /\ \A r \in RecordIds :
              (get_latest_version(r)' = NoDataFrame) <=> (r \notin DOMAIN metadata_json') ]_vars

\* C19: for every record and every v in 1..current_version,
\* get_specific_version returns the rows of a data file written as version v;
\* for a version number without a data file it returns None.
C19_SpecificVersionIsWritten ==
    \A r \in DOMAIN metadata_json :
        /\ \A v \in 1..metadata_json[r].current_version :
              /\ get_specific_version(r, v) # NoDataFrame
              /\ \E k \in DOMAIN parquet_files :
                    /\ k.record_id = r /\ k.stem = v
                    /\ parquet_files[k].parquet = get_specific_version(r, v)
        /\ \A v \in Versions :
              (~ \E k \in DOMAIN parquet_files : k.record_id = r /\ k.stem = v) =>
                  get_specific_version(r, v) = NoDataFrame

\* C20: every data file of a record holds rows that validate against the
\* schema registered for the table_name in the record's metadata.
C20_FilesFollowTableSchema ==
    \A r \in DOMAIN metadata_json :
        \A k \in DOMAIN parquet_files :
            k.record_id = r =>
                /\ get_schema(metadata_json[r].table_name) # None
                /\ validate_schema(parquet_files[k].parquet,
                                   get_schema(metadata_json[r].table_name))

\* C21: list_by_project returns exactly the records under
\* {project}/{entity_type}/ whose status matches the filter; a record the
\* facade created is in the listing of its project and entity type.
C21_ListingHoldsProjectRecords ==
    \A metadata_base_path \in BasePaths, p \in ProjectIds, t \in EntityTypes,
       st \in {None, DRAFT, APPROVED, REJECTED} :
        list_by_project(metadata_base_path, t, p, st) =
            {r \in DOMAIN metadata_json :
                /\ StartsWithPrefix(r, p, t)
                /\ st # None => metadata_json[r].status = st}

\* C22: the facade's update of an existing entity with a conforming payload,
\* with a comment or without one, succeeds, advances current_version by one
\* and leaves the record draft.
C22_FacadeUpdateAdvances ==
    [][ \A c \in Callers :
          LET record_id == _get_record_id("p1", "borelog", "e1")
          IN  ( /\ record_id \in DOMAIN metadata_json
                /\ update("borelog", "p1", "e1", "payload_a", c.user, c.comment) )
              => /\ last'.result = "ok"
                 /\ metadata_json'[record_id].current_version =
                        metadata_json[record_id].current_version + 1
                 /\ metadata_json'[record_id].status = DRAFT ]_vars

\* the actions the dispatcher routes
C28_Actions == {"create", "update", "get", "approve", "reject", "list",
                "get_version", "get_history", "save_stratum"}

C29_StatusCodeByErrorKind ==
    [][ \A request \in Requests :
          LET record_id == _get_record_id(request.project_id, request.entity_type,
                                          request.entity_id)
              code == status_code(last'.op, last'.result)
          IN  ( /\ request.action \in {"get", "get_version", "get_history",
                                       "update", "approve", "reject"}
                /\ request.entity_type # None
                /\ request.action \in {"update", "approve", "reject"} => request.user # None
                /\ request.action = "get_version" => request.version # 0
                /\ record_id \notin DOMAIN metadata_json
                /\ handle(request) )
              => code = 404 ]_vars

\* the exceptions of the parse worker
ParseErrors == {"ValueError", "ClientError", "JSONDecodeError"}

\* C23: when the strata object of the payload's (project, borelog, version)
\* exists, the invocation makes no get_object, no parse and no put_object,
\* leaves every object as it was, and returns status SKIPPED (head_object
\* having answered).
C23_ExistingStrataSkips ==
    [][ last'.op = "handler" =>
          /\ \A i \in 1..Len(last'.trace) :
               LET o == last'.trace[i]
                   before == IF i = 1 THEN s3_objects ELSE last'.trace[i - 1].objects
                   version_no == IF o.payload.version_no = 0 THEN 1
                                 ELSE o.payload.version_no
                   skey == "projects/p1/borelogs/b1/parsed/v" \o NumberText(version_no)
                               \o "/strata.json"
               IN  ( /\ o.payload.bucket # None /\ o.payload.csvKey # None
                     /\ o.payload.project_id = "p1"
                     /\ skey \in DOMAIN before )
                   => /\ o.objects = before
                      /\ \A j \in 1..Len(o.calls) : o.calls[j] = "head_object"
                      /\ o.error = None => o.status = "SKIPPED"
                      /\ o.error # None => o.error = "ClientError"
          /\ (last'.records = 0 /\ last'.trace[1].status = "SKIPPED") =>
                 (last'.result = "SKIPPED" /\ last'.processed = 1)
      ]_vars

\* a second invocation for a version whose strata object exists was skipped
C23_Witness ==
    /\ last.op = "handler" /\ last.records = 0 /\ last.result = "SKIPPED"
    /\ strata_key("p1", "b1", 1) \in DOMAIN s3_objects

\* C24: an exception raised while a payload is processed leaves the handler
\* as that exception; the records of a batch are processed in order, none
\* after the first that raised; processed is returned, and equals the number
\* of records, only when no record raised.
C24_ErrorsPropagate ==
    last.op = "handler" =>
        LET trace == last.trace
            n == Len(trace)
        IN  /\ n >= 1
            /\ \A i \in 1..(n - 1) : trace[i].error = None
            /\ trace[n].error # None =>
                  /\ last.result = trace[n].error
                  /\ last.result \in ParseErrors
                  /\ last.processed = 0
                  /\ n <= last.records \/ last.records = 0
            /\ trace[n].error = None =>
                  /\ last.result \notin ParseErrors
                  /\ last.processed = IF last.records = 0 THEN 1 ELSE last.records
                  /\ last.records > 0 => n = last.records
            /\ s3_objects = trace[n].objects

\* a batch of two whose first record raised: the second was not processed
C24_Witness ==
    /\ last.op = "handler" /\ last.records = 2
    /\ Len(last.trace) = 1 /\ last.result \in ParseErrors

\* the rows of the CSV of the last ingestion that fail a schema field: the
\* required "id" is empty, or "value" is not a number
FailingRows(csv) ==
    {i \in 1..Len(csv.cells) : csv.cells[i][1] = "nan" \/ csv.cells[i][2] = "word"}

\* the rows the last ingestion classified: all of them, or with skip_errors
\* off the rows up to the first failing one
ClassifiedRows(csv, skip_errors) ==
    IF skip_errors \/ FailingRows(csv) = {} THEN 1..Len(csv.cells)
    ELSE 1..(CHOOSE i \in FailingRows(csv) : \A j \in FailingRows(csv) : i <= j)

\* an ingestion that returned a result for a CSV with rows
IngestReturned ==
    /\ last.op = "ingest_csv" /\ last.result = "ok" /\ Len(last.csv.cells) > 0

\* C25: with skip_errors every row is counted valid or invalid, never both:
\* the counts add up to the total, and the invalid rows are the rows with a
\* failing field, each of which has an error; without skip_errors the rows
\* after the first failing one are not classified.
C25_RowsClassified ==
    IngestReturned =>
        LET classified == ClassifiedRows(last.csv, last.skip_errors)
            failing == FailingRows(last.csv) \cap classified
        IN  /\ last.total_rows = Len(last.csv.cells)
            /\ last.invalid_rows = Cardinality(failing)
            /\ last.valid_rows = Cardinality(classified \ failing)
            /\ {last.errors[k].row_index + 1 : k \in 1..Len(last.errors)} = failing
            /\ last.skip_errors => last.valid_rows + last.invalid_rows = last.total_rows
            /\ ~last.skip_errors => last.invalid_rows <= 1

\* with skip_errors off, a failing first row of two ended the validation
C25_Witness ==
    /\ IngestReturned /\ ~last.skip_errors
    /\ last.total_rows = 2 /\ last.invalid_rows = 1 /\ last.valid_rows = 0
    /\ FailingRows(last.csv) = {1}

\* C26: an ingestion of a CSV in which no classified row is valid writes no
\* data file and no metadata, and returns the errors and no version.
C26_NoValidRowsNoMutation ==
    [][ ( /\ last'.op = "ingest_csv" /\ last'.csv.parsable
          /\ ClassifiedRows(last'.csv, last'.skip_errors) \subseteq FailingRows(last'.csv) )
        => /\ UNCHANGED <<metadata_json, parquet_files>>
           /\ last'.result = "ok"
           /\ last'.version = 0
           /\ last'.valid_rows = 0
           /\ Len(last'.csv.cells) > 0 => Len(last'.errors) > 0 ]_vars

\* a CSV of failing rows only was ingested into an approved record
C26_Witness ==
    /\ IngestReturned /\ last.valid_rows = 0 /\ last.invalid_rows = 2
    /\ last.record_id \in DOMAIN metadata_json
    /\ metadata_json[last.record_id].status = APPROVED

\* C27: an ingestion with a valid row creates the record at version 1 when it
\* is absent and advances it by one version when it is present; the file of
\* that version holds the valid rows only; the result reports the version.
C27_ValidRowsAdvanceOneVersion ==
    [][ \A i \in IngestCalls, c \in Uploaders :
          LET record_id == _get_record_id("p1", "borelog", "e1")
              before == IF record_id \in DOMAIN metadata_json
                        THEN metadata_json[record_id].current_version ELSE 0
              valid == ClassifiedRows(i.csv, i.skip_errors) \ FailingRows(i.csv)
          IN  ( /\ i.csv.parsable /\ i.table_name = "borelog_versions"
                /\ valid # {}
                /\ ingest_csv(i.csv, i.table_name, "p1", "borelog", "e1", c.user,
                              c.comment, i.skip_errors) )
              => /\ last'.result = "ok"
                 /\ record_id \in DOMAIN metadata_json'
                 /\ metadata_json'[record_id].current_version = before + 1
                 /\ last'.version = before + 1
                 /\ \E k \in DOMAIN parquet_files' \ DOMAIN parquet_files :
                       /\ k.record_id = record_id /\ k.stem = before + 1
                       /\ parquet_files'[k].parquet.rows =
                              RowsText([j \in 1..Cardinality(valid) |->
                                          [id |-> "text", value |-> "float"]]) ]_vars

LegacyKey == legacy_metadata_key("p1", "b1")

\* the legacy document names an approved version only if versions[] has it
\* with status APPROVED
LatestApprovedIsApproved(objects) ==
    (LegacyKey \in DOMAIN objects /\ objects[LegacyKey].latest_approved # 0) =>
        \E i \in 1..Len(objects[LegacyKey].versions) :
            /\ objects[LegacyKey].versions[i].version = objects[LegacyKey].latest_approved
            /\ objects[LegacyKey].versions[i].status = "APPROVED"

\* C30: approve_version of a version with a data file and an entry in
\* versions[] marks the entry APPROVED, sets latest_approved to it, stamps
\* approved_by and approved_at on the entry and on the root, and puts no
\* object but metadata.json; a version without data file or without entry is
\* refused and nothing is written; latest_approved always names an APPROVED
\* entry.
C30_LegacyApproval ==
    [][ /\ \A version \in 1..(MaxFiles + 1), approved_by \in LegacyUsers,
              now \in Timestamps :
              LET pkey == legacy_parquet_key("p1", "b1", version)
                  listed == /\ LegacyKey \in DOMAIN s3_objects
                            /\ \E i \in 1..Len(s3_objects[LegacyKey].versions) :
                                  s3_objects[LegacyKey].versions[i].version = version
              IN  /\ ( /\ pkey \in DOMAIN s3_objects /\ listed
                       /\ approve_version("p1", "b1", version, approved_by, now, "ok") )
                      => LET after == s3_objects'[LegacyKey]
                             before == s3_objects[LegacyKey]
                         IN  /\ last'.result = "ok"
                             /\ after.latest_approved = version
                             /\ after.approved_by = approved_by /\ after.approved_at = now
                             /\ Len(after.versions) = Len(before.versions)
                             /\ \A i \in 1..Len(after.versions) :
                                   IF before.versions[i].version = version
                                   THEN after.versions[i] =
                                            [before.versions[i] EXCEPT
                                                !.status = "APPROVED",
                                                !.approved_by = approved_by,
                                                !.approved_at = now]
                                   ELSE after.versions[i] = before.versions[i]
                             /\ DOMAIN s3_objects' = DOMAIN s3_objects
                             /\ \A k \in DOMAIN s3_objects \ {LegacyKey} :
                                   s3_objects'[k] = s3_objects[k]
                  /\ \A write \in PutOutcomes :
                       ( /\ ~(pkey \in DOMAIN s3_objects /\ listed)
                         /\ approve_version("p1", "b1", version, approved_by, now, write) )
                       => /\ last'.result = "ValueError"
                          /\ s3_objects' = s3_objects
        /\ LatestApprovedIsApproved(s3_objects')
      ]_vars

\* the second version was approved after the first
C30_Witness ==
    /\ last.op = "approve_version" /\ last.result = "ok"
    /\ LegacyKey \in DOMAIN s3_objects
    /\ s3_objects[LegacyKey].latest_approved = 2
    /\ s3_objects[LegacyKey].versions[1].status = "APPROVED"

\* C31: in every row the XLSX reader emits, the stripped value of each cell
\* that has a reference is at the list position of the reference's column
\* index, every position before it that no cell of the row stands in holds
\* the empty string, and the row ends with its last cell.
C31_SparseRowsKeepColumns ==
    last.op = "iter_xlsx_rows" =>
        /\ Len(last.result) = Len(last.sheet)
        /\ \A i \in 1..Len(last.sheet) :
             LET cells == last.sheet[i]
                 emitted == last.result[i]
                 columns == {CellColumn(cells, j) : j \in 1..Len(cells)}
             IN  /\ \A j \in 1..Len(cells) :
                       cells[j].r # <<>> =>
                           LET k == _column_ref_to_index(cells[j].r)
                           IN  /\ Len(emitted) >= k + 1
                               /\ emitted[k + 1] = strip(_read_cell_value(cells[j]))
                 /\ \A p \in 1..Len(emitted) : (p - 1) \notin columns => emitted[p] = ""
                 /\ Len(emitted) = IF cells = <<>> THEN 0
                                   ELSE CellColumn(cells, Len(cells)) + 1

\* a row with cells A and D was read as <<"a", "", "", "b">>
C31_Witness ==
    /\ last.op = "iter_xlsx_rows"
    /\ last.sheet = << <<[r |-> <<"A">>, v |-> "a"], [r |-> <<"D">>, v |-> " b "]>> >>
    /\ last.result = << <<"a", "", "", "b">> >>

SpillOps == {"_write_to_mock", "_read_from_mock", "save_draft", "_read_parquet_from_s3"}

\* C32: when a write or read that goes through a temporary file returns,
\* with its result or with an exception, no temporary file of it is left.
C32_TempFilesRemoved ==
    last.op \in SpillOps => last.temp_files = {}

\* a draft save whose temporary file was written met the overwrite guard
C32_Witness ==
    /\ last.op = "save_draft" /\ last.spilled /\ last.result = "ValueError"
    /\ legacy_parquet_key("p1", "b1", 1) \in DOMAIN s3_objects

\* C33: however update_record, approve_record and reject_record calls on one
\* record interleave, no step lowers the stored current_version and no step
\* drops or changes a history entry that was stored.
C33_NoLostUpdate ==
    [][ \A r \in DOMAIN metadata_json :
          /\ r \in DOMAIN metadata_json'
          /\ metadata_json'[r].current_version >= metadata_json[r].current_version
          /\ Len(metadata_json'[r].history) >= Len(metadata_json[r].history)
          /\ SubSeq(metadata_json'[r].history, 1, Len(metadata_json[r].history))
                 = metadata_json[r].history ]_vars

\* C34: when the parse worker has answered PARSED or SKIPPED for a payload,
\* strata.json and index.json both exist under parsed/v{version} of the
\* payload's borelog.
C34_ParsedOutputsComplete ==
    last.op = "handler" =>
        \A i \in 1..Len(last.trace) :
            LET o == last.trace[i]
                version_no == IF o.payload.version_no = 0 THEN 1 ELSE o.payload.version_no
            IN  o.status \in {"PARSED", "SKIPPED"} =>
                    /\ strata_key(o.payload.project_id, o.payload.borelog_id, version_no)
                           \in DOMAIN o.objects
                    /\ index_key(o.payload.project_id, o.payload.borelog_id, version_no)
                           \in DOMAIN o.objects

\* the processing of a payload raised before its first put_object: on the
\* payload's fields, on the download or in the parser
FailedBeforeFirstWrite(o) ==
    /\ o.error # None
    /\ \A j \in 1..Len(o.calls) : o.calls[j] # "put_object"
    /\ o.calls # <<"head_object">>

\* C35: a payload whose processing raises before the first write leaves the
\* objects as they were, with neither strata.json nor index.json of its
\* version when it got as far as the download, and the same payload processed
\* again is not skipped: it is downloaded and parsed again.
C35_FailureBeforeWriteLeavesNothing ==
    [][ last'.op = "handler" =>
          \A i \in 1..Len(last'.trace) :
              LET o == last'.trace[i]
                  before == IF i = 1 THEN s3_objects ELSE last'.trace[i - 1].objects
                  again == _process_payload(o.payload, o.objects, "none")
                  version_no == IF o.payload.version_no = 0 THEN 1
                                ELSE o.payload.version_no
              IN  FailedBeforeFirstWrite(o) =>
                      /\ o.objects = before
                      /\ again.status # "SKIPPED"
                      /\ Len(o.calls) >= 2 =>
                            /\ strata_key(o.payload.project_id, o.payload.borelog_id,
                                          version_no) \notin DOMAIN o.objects
                            /\ index_key(o.payload.project_id, o.payload.borelog_id,
                                         version_no) \notin DOMAIN o.objects
                            /\ Len(again.calls) >= 2 /\ again.calls[2] = "get_object"
      ]_vars

\* the workbook without sheet1.xml was downloaded and the parser raised
C35_Witness ==
    /\ last.op = "handler" /\ last.result = "ValueError"
    /\ last.trace[1].payload.csvKey = "raw/nosheet.xlsx"
    /\ last.trace[1].calls = <<"head_object", "get_object", "parse">>
    /\ strata_key("p1", "b1", 1) \notin DOMAIN s3_objects

\* C36: a create through the facade of an entity of type borelog,
\* geological_log or lab_test that does not exist yet, with a payload that
\* conforms to the table of its type, is not refused: it stores the record
\* at version 1 under the table of its type.
C36_EntityTypesHaveSchemas ==
    [][ \A t \in {"borelog", "geological_log", "lab_test"}, c \in Callers :
          LET record_id == _get_record_id("p1", t, "e1")
          IN  ( /\ mode = "s3"
                /\ record_id \notin DOMAIN metadata_json
                /\ create(t, "p1", "e1", "payload_a", c.user, c.comment) )
              => /\ get_schema(_get_table_name(t)) # None
                 /\ record_id \in DOMAIN metadata_json'
                 /\ metadata_json'[record_id].current_version = 1
                 /\ metadata_json'[record_id].table_name = _get_table_name(t) ]_vars

\* C37: while save_draft calls on one borelog interleave, no step replaces a
\* data file that exists or drops an entry of versions[], and versions[]
\* holds exactly one entry for each version 1..latest_version.
C37_DraftSavesKeepVersions ==
    [][ /\ \A k \in DOMAIN s3_objects :
             k # LegacyKey => k \in DOMAIN s3_objects' /\ s3_objects'[k] = s3_objects[k]
        /\ (LegacyKey \in DOMAIN s3_objects) =>
              LET before == s3_objects[LegacyKey].versions
                  after == s3_objects'[LegacyKey].versions
              IN  /\ Len(after) >= Len(before)
                  /\ \A v \in 1..Len(before) :
                        /\ after[v].version = before[v].version
                        /\ after[v].created_by = before[v].created_by
                        /\ after[v].created_at = before[v].created_at
        /\ (LegacyKey \in DOMAIN s3_objects') =>
              LET m == s3_objects'[LegacyKey]
              IN  /\ Len(m.versions) = m.latest_version
                  /\ \A v \in 1..m.latest_version : m.versions[v].version = v
      ]_vars

\* one row of the sheet has been taken from the iterator in this step
RowConsumed == last'.consumed = last.consumed + 1

\* the row has a non-empty description and either both depths are available,
\* from their cells or from the description, or the thickness is parseable
StratumCondition(row, column_map) ==
    LET f == stratum_fields(row, column_map)
    IN  /\ _value_from_row(row, column_map, "description") # <<>>
        /\ \/ f.depth_from # <<>> /\ f.depth_to # <<>>
           \/ _safe_number(_value_from_row(row, column_map, "thickness")) # <<>>

StratumCreated == Len(last'.strata) = Len(last.strata) + 1

\* C38 as stated: every row consumed creates a stratum if and only if it has a
\* non-empty description and either both depths or a parseable thickness; a
\* row with only description and thickness gives null depths; a sub-header row
\* creates no stratum.
C38_StratumRowIff ==
    [][ RowConsumed =>
          /\ StratumCreated <=> StratumCondition(NextRow, last.column_map)
          /\ _is_sub_header_row(NextRow) => ~StratumCreated ]_vars

\* C38 amended: a row that is neither a footer row nor a sub-header row
\* creates a stratum if and only if it has a non-empty description and either
\* both depths or a parseable thickness; with a thickness and without both
\* depths the stratum has null depths; a footer row and a sub-header row
\* create no stratum.
C38_ClassifiedRowIff ==
    [][ RowConsumed =>
          /\ Classified(NextRow) =>
                /\ StratumCreated <=> StratumCondition(NextRow, last.column_map)
                /\ ( /\ StratumCreated
                     /\ \/ stratum_fields(NextRow, last.column_map).depth_from = <<>>
                        \/ stratum_fields(NextRow, last.column_map).depth_to = <<>> )
                   => /\ last'.strata[Len(last'.strata)].depth_from = <<>>
                      /\ last'.strata[Len(last'.strata)].depth_to = <<>>
                      /\ last'.strata[Len(last'.strata)].thickness # <<>>
          /\ ~Classified(NextRow) => ~StratumCreated
          /\ ~StratumCreated => Len(last'.strata) = Len(last.strata) ]_vars

\* a row with only description and thickness has created a stratum with null
\* depths
C38_Witness ==
    /\ last.op = "stratum_row"
    /\ last.rows[last.consumed].depth_from = <<>>
    /\ last.rows[last.consumed].depth_to = <<>>
    /\ last.rows[last.consumed].description = <<"Clay">>
    /\ last.strata[Len(last.strata)].depth_from = <<>>
    /\ last.strata[Len(last.strata)].depth_to = <<>>
    /\ last.strata[Len(last.strata)].thickness = <<15>>

\* some sample-related cell of the row holds data
HasSampleData(row, column_map) ==
    \/ \E field \in {"sample_type", "remarks"} \cap column_map :
          strip_parts(row[field]) \notin {<<>>, <<"-">>}
    \/ \E field \in {"sample_depth", "spt_blows_1", "spt_blows_2", "spt_blows_3"} \cap column_map :
          _safe_number(row[field]) # <<>>

SamplesOf(strata) == [i \in 1..Len(strata) |-> Len(strata[i].samples)]

\* C39: a non-stratum row with sample-related data adds exactly one sample to
\* the stratum created last and none when there is no stratum yet; a row
\* without sample-related data adds no sample; every sample has three
\* penetration entries; once a footer row was consumed nothing is added.
C39_SampleRows ==
    [][ /\ ( /\ RowConsumed
             /\ ~_is_template_footer(NextRow)
             /\ ~StratumCondition(NextRow, last.column_map) )
          => /\ Len(last'.strata) = Len(last.strata)
             /\ \A i \in 1..Len(last.strata) :
                   Len(last'.strata[i].samples) =
                      Len(last.strata[i].samples)
                         + ( IF i = Len(last.strata) /\ HasSampleData(NextRow, last.column_map)
                             THEN 1 ELSE 0 )
        /\ ( RowConsumed /\ ~HasSampleData(NextRow, last.column_map) )
          => \A i \in 1..Len(last.strata) :
                Len(last'.strata[i].samples) = Len(last.strata[i].samples)
        /\ \A i \in 1..Len(last'.strata) : \A j \in 1..Len(last'.strata[i].samples) :
              Len(last'.strata[i].samples[j].penetration_15cm) = 3
        /\ last.stopped => last'.strata = last.strata ]_vars

\* the depth pattern with the en dash in its class
range_at_any_dash(parts, i) ==
    /\ parts[i] \in Numerals
    /\ LET j == skip_blanks(parts, i + 1)
       IN  /\ j <= Len(parts)
           /\ parts[j] \in {"-", EnDash}
           /\ LET k == skip_blanks(parts, j + 1)
              IN  k <= Len(parts) /\ parts[k] \in Numerals

\* C40: a row with empty From and To cells whose description embeds a range
\* <num>-<num>, written with a hyphen or with an en dash, adds one stratum
\* with depth_from and depth_to set to the two numbers and with the
\* description that precedes the range.
C40_RangeFromDescription ==
    [][ \A i \in 1..Len(NextRow.description) :
          ( /\ RowConsumed
            /\ NextRow.depth_from = <<>>
            /\ NextRow.depth_to = <<>>
            /\ range_at_any_dash(NextRow.description, i)
            /\ \A h \in 1..(i - 1) : ~range_at_any_dash(NextRow.description, h) )
          => LET k == skip_blanks(NextRow.description,
                                  skip_blanks(NextRow.description, i + 1) + 1)
             IN  /\ StratumCreated
                 /\ last'.strata[Len(last'.strata)].depth_from
                       = <<float(NextRow.description[i])>>
                 /\ last'.strata[Len(last'.strata)].depth_to
                       = <<float(NextRow.description[k])>>
                 /\ last'.strata[Len(last'.strata)].description
                       = strip_parts(SubSeq(NextRow.description, 1, i - 1)) ]_vars

============================================================================
